---- MODULE Spec2Model ----
(***************************************************************************)
(* Handoff orchestration of the two example applications                   *)
(*   examples/debate/main.py     (British Parliamentary debate)            *)
(*   examples/bollywood/main.py  (two-character dramatic argument)         *)
(* The drivers (main), the tools, the handoff hooks and the roster wiring  *)
(* are translated from those files.  Runner.run, Agent, handoff and        *)
(* to_input_list belong to the imported `agents` package; the run of one   *)
(* turn is modelled after sections 4.1-4.4 and 7 of the specification.     *)
(* Spec is one run of either example; SpecPair is two calls of main side   *)
(* by side; SpecRoster is a roster filled by register calls (4.1);         *)
(* SpecCalls is the tools and hooks called on a fresh context; SpecDebate  *)
(* is the debate driver over more turns, one step per Runner.run.          *)
(***************************************************************************)
EXTENDS Integers, Sequences, FiniteSets, TLC

(* ------------------------------ bounds --------------------------------- *)
\* Runner.run calls one driver makes.
MaxTurns == 3
\* Events one decision call returns.
MaxEvents == 2
\* Events applied in one conversation, over all its turns.
MaxTotalEvents == 2
\* A raising tool or hook raises after at most this many of its statements.
MaxFailAt == 1

(* --------------------------- small helpers ----------------------------- *)
None == "None"
NoHook == "no_hook"

Min(a, b) == IF a < b THEN a ELSE b

IsPrefix(s, t) == /\ Len(s) <= Len(t)
                  /\ \A i \in 1..Len(s) : s[i] = t[i]

(* ============================ DEBATE =================================== *)

DebateModerator == "Debate Moderator"
DebateJudge     == "Debate Judge"
OG1Speaker == "Opening Government Speaker 1"
OO1Speaker == "Opening Opposition Speaker 1"
OG2Speaker == "Opening Government Speaker 2"
OO2Speaker == "Opening Opposition Speaker 2"
CG1Speaker == "Closing Government Speaker 1"
CO1Speaker == "Closing Opposition Speaker 1"
CG2Speaker == "Closing Government Speaker 2"
CO2Speaker == "Closing Opposition Speaker 2"

DebateSpeakers == {OG1Speaker, OO1Speaker, OG2Speaker, OO2Speaker,
                   CG1Speaker, CO1Speaker, CG2Speaker, CO2Speaker}

DebateAgents == DebateSpeakers \cup {DebateJudge, DebateModerator}

\* DebateContext.speaker_order, the field's default.
SpeakerOrder == <<"opening_gov_1", "opening_opp_1", "opening_gov_2", "opening_opp_2",
                  "closing_gov_1", "closing_opp_1", "closing_gov_2", "closing_opp_2">>

\* DebateContext(): every field at its default.  Scores are floats in the
\* source; the model gives integer scores, on which += and sorted() act alike.
\* speaker_scores is a dict: a sequence of <<key, value>> in insertion order.
DebateContext ==
  [ motion |-> "",
    opening_government_1 |-> "", opening_government_2 |-> "",
    opening_opposition_1 |-> "", opening_opposition_2 |-> "",
    closing_government_1 |-> "", closing_government_2 |-> "",
    closing_opposition_1 |-> "", closing_opposition_2 |-> "",
    current_speaker |-> "",
    current_speaker_role |-> "",
    speaker_order |-> SpeakerOrder,
    current_speaker_index |-> 0,
    speaker_scores |-> <<>>,
    team_scores |-> [t \in {"Opening Government", "Opening Opposition",
                            "Closing Government", "Closing Opposition"} |-> 0],
    debate_history |-> <<>>,
    time_remaining |-> 300,
    speaker_rankings |-> <<>>,
    winner |-> None,
    rebuttal_mode |-> FALSE,
    current_rebuttal_speaker |-> "" ]

(* ------------------------- dict helpers -------------------------------- *)
\* d[k] = v on a dict kept as a sequence of pairs: an existing key keeps its
\* place, a new key goes last.
DictSet(d, k, v) ==
  IF \E i \in 1..Len(d) : d[i][1] = k
    THEN [i \in 1..Len(d) |-> IF d[i][1] = k THEN <<k, v>> ELSE d[i]]
    ELSE Append(d, <<k, v>>)

\* sorted(items, key=lambda x: x[1], reverse=True): stable, highest first.
RECURSIVE InsertDesc(_, _)
InsertDesc(s, x) ==
  IF s = <<>> THEN <<x>>
  ELSE IF Head(s)[2] >= x[2] THEN <<Head(s)>> \o InsertDesc(Tail(s), x)
  ELSE <<x>> \o s

RECURSIVE SortedDesc(_)
SortedDesc(d) ==
  IF d = <<>> THEN <<>>
  ELSE InsertDesc(SortedDesc(SubSeq(d, 1, Len(d) - 1)), d[Len(d)])

(* ------------------------- debate tools -------------------------------- *)
\* Each tool and hook takes the context c, its parameters p and the number k
\* of its statements that run: k = the tool's statement count is a complete
\* call, a smaller k is a call that raised after k statements.  The context
\* is the driver's own object, changed in place.

propose_motion(c, p, k) ==
  LET c1 == IF k >= 1 THEN [c EXCEPT !.motion = p.motion] ELSE c
      c2 == IF k >= 2
              THEN [c1 EXCEPT !.debate_history = Append(@, <<"Motion proposed", p.motion>>)]
              ELSE c1
  IN c2

assign_speakers(c, p, k) ==
  LET c1 == IF k >= 1 THEN [c  EXCEPT !.opening_government_1 = p.opening_gov_1] ELSE c
      c2 == IF k >= 2 THEN [c1 EXCEPT !.opening_government_2 = p.opening_gov_2] ELSE c1
      c3 == IF k >= 3 THEN [c2 EXCEPT !.opening_opposition_1 = p.opening_opp_1] ELSE c2
      c4 == IF k >= 4 THEN [c3 EXCEPT !.opening_opposition_2 = p.opening_opp_2] ELSE c3
      c5 == IF k >= 5 THEN [c4 EXCEPT !.closing_government_1 = p.closing_gov_1] ELSE c4
      c6 == IF k >= 6 THEN [c5 EXCEPT !.closing_government_2 = p.closing_gov_2] ELSE c5
      c7 == IF k >= 7 THEN [c6 EXCEPT !.closing_opposition_1 = p.closing_opp_1] ELSE c6
      c8 == IF k >= 8 THEN [c7 EXCEPT !.closing_opposition_2 = p.closing_opp_2] ELSE c7
      c9 == IF k >= 9
              THEN [c8 EXCEPT !.debate_history = Append(@, <<"Speakers assigned", p>>)]
              ELSE c8
  IN c9

\* The if/elif chain of score_speech: the first team that lists the speaker.
TeamOf(c, speaker) ==
  IF speaker \in {c.opening_government_1, c.opening_government_2}
    THEN "Opening Government"
  ELSE IF speaker \in {c.opening_opposition_1, c.opening_opposition_2}
    THEN "Opening Opposition"
  ELSE IF speaker \in {c.closing_government_1, c.closing_government_2}
    THEN "Closing Government"
  ELSE IF speaker \in {c.closing_opposition_1, c.closing_opposition_2}
    THEN "Closing Opposition"
  ELSE None

score_speech(c, p, k) ==
  LET c1 == IF k >= 1
              THEN [c EXCEPT !.speaker_scores = DictSet(@, p.speaker, p.score)]
              ELSE c
      c2 == IF k >= 2
              THEN [c1 EXCEPT !.debate_history = Append(@, <<"scored", p.speaker, p.score>>)]
              ELSE c1
      c3 == IF k >= 3 /\ TeamOf(c2, p.speaker) # None
              THEN [c2 EXCEPT !.team_scores[TeamOf(c2, p.speaker)] = @ + p.score]
              ELSE c2
  IN c3

\* Mutant of advance_speaker: the role is read at the index before it is
\* incremented.
advance_speakerReadsFirst(c, p, k) ==
  LET idx == c.current_speaker_index
      c1 == [c EXCEPT !.current_speaker_index = @ + 1]
  IN IF idx + 1 < Len(c.speaker_order)
       THEN [c1 EXCEPT !.current_speaker_role = c.speaker_order[idx + 1],
                       !.debate_history = Append(@, <<"Next speaker", c.speaker_order[idx + 1]>>)]
       ELSE [c1 EXCEPT !.debate_history = Append(@, <<"All speakers have spoken">>)]

advance_speaker(c, p, k) ==
  LET c1 == IF k >= 1
              THEN [c EXCEPT !.current_speaker_index = @ + 1]
              ELSE c
      idx == c1.current_speaker_index
      inOrder == idx < Len(c1.speaker_order)
      c2 == IF k >= 2
              THEN IF inOrder
                     THEN [c1 EXCEPT !.current_speaker_role = c1.speaker_order[idx + 1]]
                     ELSE [c1 EXCEPT !.debate_history = Append(@, <<"All speakers have spoken">>)]
              ELSE c1
      c3 == IF k >= 3 /\ inOrder
              THEN [c2 EXCEPT !.debate_history =
                                 Append(@, <<"Next speaker", c1.speaker_order[idx + 1]>>)]
              ELSE c2
  IN c3

\* The speakers of sorted_speakers, in order.
SpeakersOf(pairs) == [i \in 1..Len(pairs) |-> pairs[i][1]]

rank_speakers(c, p, k) ==
  LET sorted_speakers == SortedDesc(c.speaker_scores)
      c1 == IF k >= 1
              THEN [c EXCEPT !.speaker_rankings = @ \o SpeakersOf(sorted_speakers)]
              ELSE c
      c2 == IF k >= 2
              THEN [c1 EXCEPT !.debate_history =
                                 Append(@, <<"Rankings determined", c1.speaker_rankings>>)]
              ELSE c1
      c3 == IF k >= 3 /\ c2.speaker_rankings # <<>>
              THEN [c2 EXCEPT !.winner = c2.speaker_rankings[1]]
              ELSE c2
  IN c3

start_rebuttal(c, p, k) ==
  LET c1 == IF k >= 1 THEN [c  EXCEPT !.rebuttal_mode = TRUE] ELSE c
      c2 == IF k >= 2 THEN [c1 EXCEPT !.current_rebuttal_speaker = p.speaker] ELSE c1
      c3 == IF k >= 3
              THEN [c2 EXCEPT !.debate_history = Append(@, <<"Rebuttal session started", p.speaker>>)]
              ELSE c2
  IN c3

end_rebuttal(c, p, k) ==
  LET c1 == IF k >= 1 THEN [c  EXCEPT !.rebuttal_mode = FALSE] ELSE c
      c2 == IF k >= 2 THEN [c1 EXCEPT !.current_rebuttal_speaker = ""] ELSE c1
      c3 == IF k >= 3
              THEN [c2 EXCEPT !.debate_history = Append(@, <<"Rebuttal session ended">>)]
              ELSE c2
  IN c3

\* Reads the context and changes nothing.
get_debate_status(c, p, k) == c

(* ------------------------- debate hooks -------------------------------- *)
\* The three statements every on_<role>_handoff hook of a speaker makes:
\* current_speaker, current_speaker_role, debate_history.append.
\* Mutant of SpeakerHook: the hook leaves current_speaker_role alone.
SpeakerHookKeepsRole(c, name, role, k) ==
  LET c1 == IF k >= 1 THEN [c  EXCEPT !.current_speaker = name] ELSE c
      c3 == IF k >= 3
              THEN [c1 EXCEPT !.debate_history = Append(@, <<name, role, "begins speaking">>)]
              ELSE c1
  IN c3

SpeakerHook(c, name, role, k) ==
  LET c1 == IF k >= 1 THEN [c  EXCEPT !.current_speaker = name] ELSE c
      c2 == IF k >= 2 THEN [c1 EXCEPT !.current_speaker_role = role] ELSE c1
      c3 == IF k >= 3
              THEN [c2 EXCEPT !.debate_history = Append(@, <<name, role, "begins speaking">>)]
              ELSE c2
  IN c3

on_opening_gov_1_handoff(c, k) == SpeakerHook(c, c.opening_government_1, "opening_gov_1", k)
on_opening_opp_1_handoff(c, k) == SpeakerHook(c, c.opening_opposition_1, "opening_opp_1", k)
on_opening_gov_2_handoff(c, k) == SpeakerHook(c, c.opening_government_2, "opening_gov_2", k)
on_opening_opp_2_handoff(c, k) == SpeakerHook(c, c.opening_opposition_2, "opening_opp_2", k)
on_closing_gov_1_handoff(c, k) == SpeakerHook(c, c.closing_government_1, "closing_gov_1", k)
on_closing_opp_1_handoff(c, k) == SpeakerHook(c, c.closing_opposition_1, "closing_opp_1", k)
on_closing_gov_2_handoff(c, k) == SpeakerHook(c, c.closing_government_2, "closing_gov_2", k)
on_closing_opp_2_handoff(c, k) == SpeakerHook(c, c.closing_opposition_2, "closing_opp_2", k)

on_judge_handoff(c, k) ==
  IF k >= 1 THEN [c EXCEPT !.debate_history = Append(@, <<"Judge begins evaluation">>)] ELSE c

(* =========================== BOLLYWOOD ================================= *)

ArgumentModerator == "Argument Moderator"
Character1 == "Character 1"
Character2 == "Character 2"
HindiTranslator == "Hindi Translator"

BollywoodAgents == {ArgumentModerator, Character1, Character2, HindiTranslator}

\* BollywoodArgumentContext(): every field at its default.
BollywoodArgumentContext ==
  [ argument_topic |-> "",
    character_1_name |-> "", character_2_name |-> "",
    character_1_role |-> "", character_2_role |-> "",
    current_speaker |-> "",
    argument_history |-> <<>>,
    current_round |-> 0,
    dramatic_intensity |-> 5,
    user_questions |-> <<>>,
    translations_given |-> <<>> ]

set_argument_scene(c, p, k) ==
  LET c1 == IF k >= 1 THEN [c  EXCEPT !.argument_topic = p.topic] ELSE c
      c2 == IF k >= 2 THEN [c1 EXCEPT !.character_1_name = p.char1_name] ELSE c1
      c3 == IF k >= 3 THEN [c2 EXCEPT !.character_2_name = p.char2_name] ELSE c2
      c4 == IF k >= 4 THEN [c3 EXCEPT !.character_1_role = p.char1_role] ELSE c3
      c5 == IF k >= 5 THEN [c4 EXCEPT !.character_2_role = p.char2_role] ELSE c4
      c6 == IF k >= 6
              THEN [c5 EXCEPT !.argument_history =
                      Append(@, [type |-> "scene_setup", topic |-> p.topic,
                                 char1 |-> <<p.char1_name, p.char1_role>>,
                                 char2 |-> <<p.char2_name, p.char2_role>>])]
              ELSE c5
  IN c6

\* Mutant of speak_hindi_dialogue: the entry carries the round read before
\* the increment.
speak_hindi_dialogueOldRound(c, p, k) ==
  [c EXCEPT !.current_speaker = p.speaker,
            !.current_round = @ + 1,
            !.dramatic_intensity = p.dramatic_level,
            !.argument_history =
               Append(@, [type |-> "dialogue", speaker |-> p.speaker,
                          hindi |-> p.hindi_dialogue,
                          english |-> p.english_translation,
                          dramatic_level |-> p.dramatic_level,
                          round |-> c.current_round])]

speak_hindi_dialogue(c, p, k) ==
  LET c1 == IF k >= 1 THEN [c  EXCEPT !.current_speaker = p.speaker] ELSE c
      c2 == IF k >= 2 THEN [c1 EXCEPT !.current_round = @ + 1] ELSE c1
      c3 == IF k >= 3 THEN [c2 EXCEPT !.dramatic_intensity = p.dramatic_level] ELSE c2
      c4 == IF k >= 4
              THEN [c3 EXCEPT !.argument_history =
                      Append(@, [type |-> "dialogue", speaker |-> p.speaker,
                                 hindi |-> p.hindi_dialogue,
                                 english |-> p.english_translation,
                                 dramatic_level |-> p.dramatic_level,
                                 round |-> c3.current_round])]
              ELSE c3
  IN c4

explain_meaning(c, p, k) ==
  LET c1 == IF k >= 1
              THEN [c EXCEPT !.user_questions = Append(@, p.word_or_phrase)]
              ELSE c
      c2 == IF k >= 2
              THEN [c1 EXCEPT !.translations_given = Append(@, p.detailed_explanation)]
              ELSE c1
  IN c2

escalate_drama(c, p, k) ==
  LET c1 == IF k >= 1 THEN [c EXCEPT !.dramatic_intensity = p.new_intensity] ELSE c
      c2 == IF k >= 2
              THEN [c1 EXCEPT !.argument_history =
                      Append(@, [type |-> "drama_escalation",
                                 new_intensity |-> p.new_intensity])]
              ELSE c1
  IN c2

\* Reads the context and changes nothing.
get_argument_status(c, p, k) == c

add_bollywood_element(c, p, k) ==
  IF k >= 1
    THEN [c EXCEPT !.argument_history =
            Append(@, [type |-> "bollywood_element", element |-> p.element_type,
                       description |-> p.description])]
    ELSE c

on_character_1_handoff(c, k) ==
  LET c1 == IF k >= 1 THEN [c EXCEPT !.current_speaker = c.character_1_name] ELSE c
      c2 == IF k >= 2
              THEN [c1 EXCEPT !.argument_history =
                      Append(@, [type |-> "speaker_change", speaker |-> c1.character_1_name])]
              ELSE c1
  IN c2

on_character_2_handoff(c, k) ==
  LET c1 == IF k >= 1 THEN [c EXCEPT !.current_speaker = c.character_2_name] ELSE c
      c2 == IF k >= 2
              THEN [c1 EXCEPT !.argument_history =
                      Append(@, [type |-> "speaker_change", speaker |-> c1.character_2_name])]
              ELSE c1
  IN c2

on_translator_handoff(c, k) ==
  IF k >= 1
    THEN [c EXCEPT !.argument_history =
            Append(@, [type |-> "translator_activated",
                       content |-> "Translator ready to explain"])]
    ELSE c

(* ============================ ROSTERS ================================== *)

Apps == {"debate", "bollywood"}

Agents(a) == IF a = "debate" THEN DebateAgents ELSE BollywoodAgents

\* The roster's entry agent: main's first current_agent.
EntryAgent(a) == IF a = "debate" THEN DebateModerator ELSE ArgumentModerator

\* tools=[...] of each Agent(...).
Tools(agent) ==
  CASE agent \in DebateSpeakers -> {"get_debate_status"}
    [] agent = DebateJudge ->
         {"score_speech", "advance_speaker", "rank_speakers",
          "start_rebuttal", "end_rebuttal", "get_debate_status"}
    [] agent = DebateModerator ->
         {"propose_motion", "assign_speakers", "advance_speaker", "get_debate_status"}
    [] agent \in {Character1, Character2} ->
         {"speak_hindi_dialogue", "escalate_drama", "add_bollywood_element",
          "get_argument_status"}
    [] agent = HindiTranslator -> {"explain_meaning", "get_argument_status"}
    [] agent = ArgumentModerator -> {"set_argument_scene", "get_argument_status"}
    [] OTHER -> {}

AllTools(a) == UNION {Tools(ag) : ag \in Agents(a)}

\* One outbound edge: handoff(agent=..., on_handoff=...), or a bare Agent
\* appended to .handoffs (no hook).
Edge(target, hook) == [agent |-> target, on_handoff |-> hook]

\* The handoffs of every agent when its constructor returns: the handoffs=
\* argument of the moderator, the empty default of every other agent.
ConstructedHandoffs(a) ==
  IF a = "debate"
    THEN [ag \in DebateAgents |->
            IF ag = DebateModerator
              THEN << Edge(OG1Speaker, "on_opening_gov_1_handoff"),
                      Edge(OO1Speaker, "on_opening_opp_1_handoff"),
                      Edge(OG2Speaker, "on_opening_gov_2_handoff"),
                      Edge(OO2Speaker, "on_opening_opp_2_handoff"),
                      Edge(CG1Speaker, "on_closing_gov_1_handoff"),
                      Edge(CO1Speaker, "on_closing_opp_1_handoff"),
                      Edge(CG2Speaker, "on_closing_gov_2_handoff"),
                      Edge(CO2Speaker, "on_closing_opp_2_handoff"),
                      Edge(DebateJudge, "on_judge_handoff") >>
              ELSE <<>>]
    ELSE [ag \in BollywoodAgents |->
            IF ag = ArgumentModerator
              THEN << Edge(Character1, "on_character_1_handoff"),
                      Edge(Character2, "on_character_2_handoff"),
                      Edge(HindiTranslator, "on_translator_handoff") >>
              ELSE <<>>]

\* The module-level X.handoffs.append(Y) statements, in order, as <<X, Y>>.
AppendStatements(a) ==
  IF a = "debate"
    THEN << <<OG1Speaker, DebateJudge>>, <<OO1Speaker, DebateJudge>>,
            <<OG2Speaker, DebateJudge>>, <<OO2Speaker, DebateJudge>>,
            <<CG1Speaker, DebateJudge>>, <<CO1Speaker, DebateJudge>>,
            <<CG2Speaker, DebateJudge>>, <<CO2Speaker, DebateJudge>>,
            <<DebateJudge, DebateModerator>> >>
    ELSE << <<Character1, Character2>>, <<Character2, Character1>>,
            <<Character1, HindiTranslator>>, <<Character2, HindiTranslator>>,
            <<HindiTranslator, ArgumentModerator>> >>

\* Mutants of HandoffsAppend: the edge is also added backwards; the edge goes
\* to every list that was constructed empty (one shared default list); the
\* edge is added to the target's list instead of the source's.
HandoffsAppendBoth(h, from, to) ==
  [h EXCEPT ![from] = Append(@, Edge(to, NoHook)), ![to] = Append(@, Edge(from, NoHook))]

HandoffsAppendShared(h, from, to) ==
  [ag \in DOMAIN h |->
     IF ag = from \/ (h[ag] = <<>> \/ h[ag][1].on_handoff = NoHook)
       THEN Append(h[ag], Edge(to, NoHook)) ELSE h[ag]]

HandoffsAppendSwapped(h, from, to) == [h EXCEPT ![to] = Append(@, Edge(from, NoHook))]

\* Mutant of HandoffsAppend: the edge added leads to an agent of no roster.
HandoffsAppendOutside(h, from, to) == [h EXCEPT ![from] = Append(@, Edge("Nobody", NoHook))]

\* X.handoffs.append(Y): one more edge at the end of X's list, nothing else.
\* Mutant of HandoffsAppend: the statement adds nothing.
HandoffsAppendNothing(h, from, to) == h

\* Mutant of HandoffsAppend: an edge meant for the judge leads to the
\* moderator instead.
HandoffsAppendPastJudge(h, from, to) ==
  [h EXCEPT ![from] = Append(@, Edge(IF to = DebateJudge THEN DebateModerator ELSE to, NoHook))]

HandoffsAppend(h, from, to) == [h EXCEPT ![from] = Append(@, Edge(to, NoHook))]

\* The <<from, to>> pairs a handoffs table holds.
EdgePairs(h) == UNION {{<<ag, h[ag][i].agent>> : i \in 1..Len(h[ag])} : ag \in DOMAIN h}

(* --------------------------- dispatch ---------------------------------- *)

\* The statements of each tool body that change the context (at least 1).
ToolStmts(name) ==
  CASE name = "propose_motion" -> 2
    [] name = "assign_speakers" -> 9
    [] name = "score_speech" -> 3
    [] name = "advance_speaker" -> 3
    [] name = "rank_speakers" -> 3
    [] name = "start_rebuttal" -> 3
    [] name = "end_rebuttal" -> 3
    [] name = "get_debate_status" -> 1
    [] name = "set_argument_scene" -> 6
    [] name = "speak_hindi_dialogue" -> 4
    [] name = "explain_meaning" -> 2
    [] name = "escalate_drama" -> 2
    [] name = "get_argument_status" -> 1
    [] name = "add_bollywood_element" -> 1
    [] OTHER -> 0

\* The tool's effect on the context after k of its statements.
RunTool(name, c, p, k) ==
  CASE name = "propose_motion" -> propose_motion(c, p, k)
    [] name = "assign_speakers" -> assign_speakers(c, p, k)
    [] name = "score_speech" -> score_speech(c, p, k)
    [] name = "advance_speaker" -> advance_speaker(c, p, k)
    [] name = "rank_speakers" -> rank_speakers(c, p, k)
    [] name = "start_rebuttal" -> start_rebuttal(c, p, k)
    [] name = "end_rebuttal" -> end_rebuttal(c, p, k)
    [] name = "get_debate_status" -> get_debate_status(c, p, k)
    [] name = "set_argument_scene" -> set_argument_scene(c, p, k)
    [] name = "speak_hindi_dialogue" -> speak_hindi_dialogue(c, p, k)
    [] name = "explain_meaning" -> explain_meaning(c, p, k)
    [] name = "escalate_drama" -> escalate_drama(c, p, k)
    [] name = "get_argument_status" -> get_argument_status(c, p, k)
    [] name = "add_bollywood_element" -> add_bollywood_element(c, p, k)
    [] OTHER -> c

\* The string a complete call returns, as <<what it says, the values in it>>;
\* c is the context the call started from, c2 the one it left.
ToolResult(name, c, c2, p) ==
  CASE name = "propose_motion" -> <<"Motion set", p.motion>>
    [] name = "assign_speakers" -> <<"Speakers assigned", p>>
    [] name = "score_speech" -> <<"scored", p.speaker, p.score, p.feedback>>
    [] name = "advance_speaker" ->
         IF c2.current_speaker_index < Len(c2.speaker_order)
           THEN <<"Advanced to", c2.current_speaker_role>>
           ELSE <<"All speakers have completed their speeches">>
    [] name = "rank_speakers" -> <<"Speaker Rankings", SortedDesc(c.speaker_scores)>>
    [] name = "start_rebuttal" -> <<"Rebuttal session started for", p.speaker>>
    [] name = "end_rebuttal" -> <<"Rebuttal session ended">>
    [] name = "get_debate_status" ->
         <<"DEBATE STATUS", c.motion, c.current_speaker, c.current_speaker_role,
           c.current_speaker_index + 1, c.team_scores, c.winner, c.rebuttal_mode>>
    [] name = "set_argument_scene" -> <<"Scene set", p>>
    [] name = "speak_hindi_dialogue" -> <<"dialogue", p>>
    [] name = "explain_meaning" -> <<"Explanation of", p>>
    [] name = "escalate_drama" -> <<"Dramatic intensity escalated to", p.new_intensity>>
    [] name = "get_argument_status" ->
         <<"ARGUMENT STATUS", c.argument_topic, c.current_speaker, c.current_round,
           c.dramatic_intensity, Len(c.user_questions)>>
    [] name = "add_bollywood_element" -> <<"Added", p.element_type, p.description>>
    [] OTHER -> <<>>

\* The statements of each hook.
HookStmts(hook) ==
  CASE hook \in {"on_judge_handoff", "on_translator_handoff"} -> 1
    [] hook \in {"on_character_1_handoff", "on_character_2_handoff"} -> 2
    [] hook = NoHook -> 0
    [] OTHER -> 3

\* The hook's effect on the context after k of its statements.
RunHook(hook, c, k) ==
  CASE hook = "on_opening_gov_1_handoff" -> on_opening_gov_1_handoff(c, k)
    [] hook = "on_opening_opp_1_handoff" -> on_opening_opp_1_handoff(c, k)
    [] hook = "on_opening_gov_2_handoff" -> on_opening_gov_2_handoff(c, k)
    [] hook = "on_opening_opp_2_handoff" -> on_opening_opp_2_handoff(c, k)
    [] hook = "on_closing_gov_1_handoff" -> on_closing_gov_1_handoff(c, k)
    [] hook = "on_closing_opp_1_handoff" -> on_closing_opp_1_handoff(c, k)
    [] hook = "on_closing_gov_2_handoff" -> on_closing_gov_2_handoff(c, k)
    [] hook = "on_closing_opp_2_handoff" -> on_closing_opp_2_handoff(c, k)
    [] hook = "on_judge_handoff" -> on_judge_handoff(c, k)
    [] hook = "on_character_1_handoff" -> on_character_1_handoff(c, k)
    [] hook = "on_character_2_handoff" -> on_character_2_handoff(c, k)
    [] hook = "on_translator_handoff" -> on_translator_handoff(c, k)
    [] OTHER -> c

(* ============================= EVENTS ================================== *)
\* What a decision call may return.  kind is "message", "action" or
\* "handoff"; name is the tool or the handoff target; valid says whether the
\* params pass the tool's schema; raises says whether the tool (or the
\* target's activation hook) raises, after failAt of its statements.

Ev(kind, name, params, valid, raises, failAt) ==
  [kind |-> kind, name |-> name, params |-> params, valid |-> valid,
   raises |-> raises, failAt |-> failAt]

NoParams == [none |-> TRUE]

SpeakerAssignment ==
  [opening_gov_1 |-> "s1", opening_gov_2 |-> "s2",
   opening_opp_1 |-> "s3", opening_opp_2 |-> "s4",
   closing_gov_1 |-> "s5", closing_gov_2 |-> "s6",
   closing_opp_1 |-> "s7", closing_opp_2 |-> "s8"]

ScoreParams == [speaker : {"s1", "x"}, score : {1, 2}, feedback : {"f"}]

SceneParams ==
  [topic |-> "t1", char1_name |-> "Raj", char1_role |-> "father",
   char2_name |-> "Simran", char2_role |-> "daughter"]

DialogueParams ==
  [speaker : {"Raj"}, hindi_dialogue : {"h"}, english_translation : {"e"},
   dramatic_level : {7}]

\* The calls with params that pass the schema: <<tool, params>>.
Calls(a) ==
  IF a = "debate"
    THEN {<<"propose_motion", [motion |-> "m1"]>>,
          <<"assign_speakers", SpeakerAssignment>>,
          <<"advance_speaker", NoParams>>,
          <<"rank_speakers", NoParams>>,
          <<"start_rebuttal", [speaker |-> "s1"]>>,
          <<"end_rebuttal", NoParams>>,
          <<"get_debate_status", NoParams>>}
         \cup {<<"score_speech", sp>> : sp \in ScoreParams}
    ELSE {<<"set_argument_scene", SceneParams>>,
          <<"explain_meaning", [word_or_phrase |-> "w", detailed_explanation |-> "d"]>>,
          <<"escalate_drama", [new_intensity |-> 9]>>,
          <<"get_argument_status", NoParams>>,
          <<"add_bollywood_element", [element_type |-> "thunder", description |-> "d"]>>}
         \cup {<<"speak_hindi_dialogue", dp>> : dp \in DialogueParams}

\* The calls whose params fail the schema: a required parameter is missing.
BadCalls(a) ==
  IF a = "debate"
    THEN {<<"propose_motion", NoParams>>,
          <<"score_speech", [speaker |-> "s1", feedback |-> "f"]>>}
    ELSE {<<"set_argument_scene", [topic |-> "t1"]>>,
          <<"speak_hindi_dialogue", [speaker |-> "Raj"]>>}

\* The calls whose effect raises.
RaisingCalls(a) ==
  IF a = "debate"
    THEN {<<"propose_motion", [motion |-> "m1"]>>,
          <<"score_speech", [speaker |-> "s1", score |-> 2, feedback |-> "f"]>>,
          <<"get_debate_status", NoParams>>}
    ELSE {<<"set_argument_scene", SceneParams>>,
          <<"speak_hindi_dialogue", CHOOSE dp \in DialogueParams : TRUE>>,
          <<"explain_meaning", [word_or_phrase |-> "w", detailed_explanation |-> "d"]>>}

MessageEvents == {Ev("message", "", [text |-> "hi"], TRUE, FALSE, 0)}

ActionEvents(a) ==
  {Ev("action", cl[1], cl[2], TRUE, FALSE, 0) : cl \in Calls(a)}
  \cup {Ev("action", cl[1], cl[2], FALSE, FALSE, 0) : cl \in BadCalls(a)}
  \cup {Ev("action", cl[1], cl[2], TRUE, TRUE, k) : cl \in RaisingCalls(a), k \in 0..MaxFailAt}

\* A name no agent of either roster bears.
Stranger == "Nobody"

HandoffEvents(a) ==
  {Ev("handoff", t, NoParams, TRUE, FALSE, 0) : t \in Agents(a) \cup {Stranger}}
  \cup {Ev("handoff", t, NoParams, TRUE, TRUE, k) : t \in Agents(a), k \in 0..MaxFailAt}

(* ========================= TRANSCRIPT ENTRIES ========================== *)

\* {"content": ..., "role": "user"}, as main appends it.
UserMessage(content) == [content |-> content, role |-> "user"]

Message(agent, text) == [type |-> "Message", agent |-> agent, text |-> text]
ActionInvoked(agent, action, params) ==
  [type |-> "ActionInvoked", agent |-> agent, action |-> action, params |-> params]
ActionResult(agent, action, result) ==
  [type |-> "ActionResult", agent |-> agent, action |-> action, result |-> result]
HandoffOccurred(source, target) ==
  [type |-> "HandoffOccurred", source |-> source, target |-> target]

\* Mutant of AppendUserInput: the list is rebound to the new message alone.
AppendUserInputReset(items, content) == <<UserMessage(content)>>

\* input_items.append({"content": ..., "role": "user"})
AppendUserInput(items, content) == Append(items, UserMessage(content))

\* result.to_input_list(): the input the run was given, then the new items.
ToInputList(items, new) == items \o new

(* ============================== ENGINE ================================= *)
NoError == "none"

\* The first edge of fromAgent's list whose target is named toName, or
\* UnknownEdgeError when the list holds none.
resolveHandoff(h, fromAgent, toName) ==
  LET hits == {i \in 1..Len(h[fromAgent]) : h[fromAgent][i].agent = toName}
  IN IF hits = {}
       THEN [err |-> "UnknownEdgeError", edge |-> Edge(toName, NoHook)]
       ELSE [err |-> NoError,
             edge |-> h[fromAgent][CHOOSE i \in hits : \A j \in hits : i <= j]]

\* Mutants of invoke: a raising effect escapes as an error and leaves no
\* ActionResult; the capability set is not consulted.
invokeEscapes(agent, e, c) ==
  IF e.name \notin Tools(agent)
    THEN [err |-> "UnknownActionError", ctx |-> c, items |-> <<>>]
  ELSE IF e.valid /\ e.raises
    THEN [err |-> "ActionEffectFailure",
          ctx |-> RunTool(e.name, c, e.params, Min(e.failAt, ToolStmts(e.name) - 1)),
          items |-> << ActionInvoked(agent, e.name, e.params) >>]
  ELSE LET c2 == IF e.valid THEN RunTool(e.name, c, e.params, ToolStmts(e.name)) ELSE c
       IN [err |-> NoError, ctx |-> c2,
           items |-> << ActionInvoked(agent, e.name, e.params),
                        ActionResult(agent, e.name,
                                     IF e.valid THEN ToolResult(e.name, c, c2, e.params)
                                     ELSE <<"InvalidParamsError">>) >>]

invokeUnchecked(agent, e, c) ==
  IF ~e.valid
    THEN [err |-> NoError, ctx |-> c,
          items |-> << ActionInvoked(agent, e.name, e.params),
                       ActionResult(agent, e.name, <<"InvalidParamsError">>) >>]
  ELSE LET k == IF e.raises THEN Min(e.failAt, ToolStmts(e.name) - 1) ELSE ToolStmts(e.name)
           c2 == RunTool(e.name, c, e.params, k)
       IN [err |-> NoError, ctx |-> c2,
           items |-> << ActionInvoked(agent, e.name, e.params),
                        ActionResult(agent, e.name,
                                     IF e.raises THEN <<"ActionEffectFailure", e.name>>
                                     ELSE ToolResult(e.name, c, c2, e.params)) >>]

\* Mutant of invoke: params that fail the schema end the run.
invokeRejects(agent, e, c) ==
  IF e.name \notin Tools(agent)
    THEN [err |-> "UnknownActionError", ctx |-> c, items |-> <<>>]
  ELSE IF ~e.valid
    THEN [err |-> "InvalidParamsError", ctx |-> c, items |-> <<>>]
  ELSE LET k == IF e.raises THEN Min(e.failAt, ToolStmts(e.name) - 1) ELSE ToolStmts(e.name)
           c2 == RunTool(e.name, c, e.params, k)
       IN [err |-> NoError, ctx |-> c2,
           items |-> << ActionInvoked(agent, e.name, e.params),
                        ActionResult(agent, e.name,
                                     IF e.raises THEN <<"ActionEffectFailure", e.name>>
                                     ELSE ToolResult(e.name, c, c2, e.params)) >>]

\* invoke(agent, actionName, params, context): the error that ends the run
\* (if any), the context it leaves and the transcript entries it appends.
invoke(agent, e, c) ==
  IF e.name \notin Tools(agent)
    THEN [err |-> "UnknownActionError", ctx |-> c, items |-> <<>>]
  ELSE IF ~e.valid
    THEN [err |-> NoError, ctx |-> c,
          items |-> << ActionInvoked(agent, e.name, e.params),
                       ActionResult(agent, e.name, <<"InvalidParamsError">>) >>]
  ELSE IF e.raises
    THEN [err |-> NoError,
          ctx |-> RunTool(e.name, c, e.params, Min(e.failAt, ToolStmts(e.name) - 1)),
          items |-> << ActionInvoked(agent, e.name, e.params),
                       ActionResult(agent, e.name, <<"ActionEffectFailure", e.name>>) >>]
  ELSE LET c2 == RunTool(e.name, c, e.params, ToolStmts(e.name))
       IN [err |-> NoError, ctx |-> c2,
           items |-> << ActionInvoked(agent, e.name, e.params),
                        ActionResult(agent, e.name, ToolResult(e.name, c, c2, e.params)) >>]

\* Mutant of executeHandoff: the target becomes current and HandoffOccurred is
\* appended, but the edge's hook is not run.
executeHandoffSkipsHook(h, agent, e, c) ==
  LET r == resolveHandoff(h, agent, e.name)
  IN IF r.err # NoError
       THEN [err |-> r.err, ctx |-> c, items |-> <<>>, agent |-> agent]
       ELSE [err |-> NoError, ctx |-> c,
             items |-> <<HandoffOccurred(agent, e.name)>>, agent |-> r.edge.agent]

\* Handoff execution: resolve the edge, run its hook on the context, append
\* HandoffOccurred, make the target current.
executeHandoff(h, agent, e, c) ==
  LET r == resolveHandoff(h, agent, e.name)
      hook == r.edge.on_handoff
  IN IF r.err # NoError
       THEN [err |-> r.err, ctx |-> c, items |-> <<>>, agent |-> agent]
     ELSE IF e.raises /\ hook # NoHook
       THEN [err |-> "HandoffHookFailure",
             ctx |-> RunHook(hook, c, Min(e.failAt, HookStmts(hook) - 1)),
             items |-> <<>>, agent |-> agent]
     ELSE [err |-> NoError, ctx |-> RunHook(hook, c, HookStmts(hook)),
           items |-> <<HandoffOccurred(agent, e.name)>>, agent |-> r.edge.agent]

(* ============================ USER INPUT =============================== *)
\* What the user may type at input().  Strings are atoms here, so the string
\* methods main applies are given by their values on these inputs.
DebateInputs == {"status", "Status", "go"}

BollywoodInputs == {"stop", "status", "explain w", "explain ", "continue", ""}

\* str.lower()
Lower(u) == IF u = "Status" THEN "status" ELSE u

\* str.strip()
Strip(u) == IF u = "explain " THEN "explain" ELSE u

\* str.startswith('explain ')
StartsWithExplain(u) == u = "explain w"

\* user_input[8:].strip()
WordToExplain(u) == IF u = "explain w" THEN "w" ELSE ""

\* f"Please explain the meaning of '{word_to_explain}' in detail"
ExplainPrompt(word) == IF word = "w" THEN "Please explain the meaning of 'w' in detail"
                       ELSE "Please explain the meaning of '' in detail"

ContinuePrompt == "Continue the dramatic argument"

\* Python's truth value of context.winner: None and "" are false.
Truthy(x) == x # None /\ x # ""

(* ============================= TRACING ================================= *)
\* uuid.uuid4().hex[:16]: some identifier.  Nothing in main or in the model
\* looks into it, so one value stands for any.
ConversationIds == {"id_a"}

\* Mutant of trace: the group is named after the workflow.
traceByWorkflow(id) == [workflow_name |-> "workflow", group_id |-> "workflow"]

\* trace(<workflow name>, group_id=conversation_id)
trace(id) == [workflow_name |-> "workflow", group_id |-> id]

\* No register call yet.
NoRegistration == [name |-> None, err |-> NoError]

\* No side-by-side conversations (Spec and SpecRoster).
NoConversations == <<>>

(* ============================== STATE ================================== *)
VARIABLES
  app,            \* which example runs
  pc,             \* where the program is
  asm,            \* the next module-level handoffs.append statement
  handoffs,       \* agent -> its list of outbound edges (Agent.handoffs)
  registered,     \* the <<from, to>> pairs registered so far (history)
  current_agent,  \* main's current_agent
  input_items,    \* main's input_items
  context,        \* main's context object
  exchange_count, \* main's exchange_count (bollywood)
  turns,          \* Runner.run calls started
  site,           \* which Runner.run call of main is running
  run_agent,      \* the engine's current agent (result.last_agent)
  new_items,      \* the entries the run has produced (result.new_items)
  remaining,      \* events of the decision's sequence not yet applied
  total_events,   \* events applied in the conversation
  err,            \* the error that ended the program, if any
  pre,            \* input_items, context, current_agent before the turn (history)
  step,           \* the event last applied, the state it found and the events
                  \* of the sequence not yet applied then, itself included (history)
  turn_events,    \* the events applied in this turn (history)
  conversation_id,\* main's conversation_id
  group_id,       \* the group_id of the trace the running turn is in
  convs,          \* two conversations side by side (SpecPair)
  names,          \* the names registered in a roster, in order (SpecRoster)
  reg_err         \* the last register call: its name and how it ended (SpecRoster)

vars == <<app, pc, asm, handoffs, registered, current_agent, input_items, context,
          exchange_count, turns, site, run_agent, new_items, remaining,
          total_events, err, pre, step, turn_events, conversation_id, group_id,
          convs, names, reg_err>>

roster == <<app, asm, handoffs, registered>>
driver == <<current_agent, input_items, context, exchange_count>>
engine == <<run_agent, new_items, remaining, total_events, step, turn_events>>
tracing == <<conversation_id, group_id>>
\* What only the side specifications (SpecPair, SpecRoster) change.
aside == <<convs, names, reg_err>>

\* The transcript the engine works on: the run's input, then its new items.
Transcript == IF pc \in {"decide", "apply", "crashed"}
                THEN input_items \o new_items ELSE input_items

InitialContext(a) == IF a = "debate" THEN DebateContext ELSE BollywoodArgumentContext

NoEvent == Ev("none", "", NoParams, TRUE, FALSE, 0)

Init ==
  /\ app \in Apps
  /\ pc = "assemble"
  /\ asm = 1
  /\ handoffs = ConstructedHandoffs(app)
  /\ registered = EdgePairs(ConstructedHandoffs(app))
  /\ current_agent = EntryAgent(app)
  /\ input_items = <<>>
  /\ context = InitialContext(app)
  /\ exchange_count = 0
  /\ turns = 0
  /\ site = "none"
  /\ run_agent = EntryAgent(app)
  /\ new_items = <<>>
  /\ remaining = 0
  /\ total_events = 0
  /\ err = NoError
  /\ pre = [items |-> <<>>, context |-> InitialContext(app), agent |-> EntryAgent(app)]
  /\ step = [event |-> NoEvent, agent |-> EntryAgent(app), items |-> <<>>,
             context |-> InitialContext(app), left |-> 0]
  /\ turn_events = <<>>
  /\ conversation_id = None
  /\ group_id = None
  /\ convs = NoConversations
  /\ names = <<>>
  /\ reg_err = NoRegistration

(* ======================== ROSTER ASSEMBLY ============================== *)
\* One module-level X.handoffs.append(Y).
Assemble ==
  /\ pc = "assemble"
  /\ asm <= Len(AppendStatements(app))
  /\ LET st == AppendStatements(app)[asm]
     IN /\ handoffs' = HandoffsAppend(handoffs, st[1], st[2])
        /\ registered' = registered \cup {st}
  /\ asm' = asm + 1
  /\ UNCHANGED <<aside, tracing, app, pc, driver, turns, site, engine, err, pre>>

\* asyncio.run(main()): main's locals are set, the loop is entered.
StartMain ==
  /\ pc = "assemble"
  /\ asm > Len(AppendStatements(app))
  /\ pc' = IF app = "debate" THEN "top" ELSE "b_top"
  /\ \E id \in ConversationIds : conversation_id' = id
  /\ UNCHANGED <<aside, group_id, roster, driver, turns, site, engine, err, pre>>

(* ========================= ONE Runner.run ============================== *)
\* The driver's lines around `await Runner.run(current_agent, input_items,
\* context=context)`: the user message is appended to input_items, then the
\* run starts with the agent given.
StartRun(agent, items, content, where) ==
  /\ turns < MaxTurns
  /\ pre' = [items |-> items, context |-> context, agent |-> current_agent]
  /\ input_items' = AppendUserInput(items, content)
  /\ current_agent' = agent
  /\ run_agent' = agent
  /\ new_items' = <<>>
  /\ remaining' = 0
  /\ turn_events' = <<>>
  /\ turns' = turns + 1
  /\ site' = where
  /\ pc' = "decide"
  /\ group_id' = trace(conversation_id).group_id
  /\ UNCHANGED <<aside, conversation_id, roster, context, total_events, err, step>>

\* The decision call returns a sequence of events.
DecideOk ==
  /\ pc = "decide"
  /\ \E n \in 0..Min(MaxEvents, MaxTotalEvents - total_events) : remaining' = n
  /\ pc' = "apply"
  /\ UNCHANGED <<aside, tracing, roster, driver, turns, site, run_agent, new_items, total_events,
                 err, pre, step, turn_events>>

\* The decision call fails: Runner.run raises, main has no handler.
DecideFail ==
  /\ pc = "decide"
  /\ err' = "DecisionCapabilityFailure"
  /\ pc' = "crashed"
  /\ UNCHANGED <<aside, tracing, roster, driver, turns, site, engine, pre>>

\* What every applied event records.
Applied(e) ==
  /\ step' = [event |-> e, agent |-> run_agent, items |-> input_items \o new_items,
              context |-> context, left |-> remaining]
  /\ turn_events' = Append(turn_events, e)
  /\ total_events' = total_events + 1

ApplyMessage ==
  /\ pc = "apply"
  /\ remaining > 0
  /\ \E e \in MessageEvents :
       /\ new_items' = Append(new_items, Message(run_agent, e.params.text))
       /\ Applied(e)
  /\ remaining' = remaining - 1
  /\ UNCHANGED <<aside, tracing, roster, driver, turns, site, run_agent, err, pre, pc>>

\* Mutant of ApplyAction: the context the action leaves may also be the one
\* it found.
ApplyActionMayDrop ==
  /\ pc = "apply"
  /\ remaining > 0
  /\ \E e \in ActionEvents(app) :
       LET r == invoke(run_agent, e, context)
       IN /\ context' \in {r.ctx, context}
          /\ new_items' = new_items \o r.items
          /\ err' = r.err
          /\ pc' = IF r.err = NoError THEN "apply" ELSE "crashed"
          /\ Applied(e)
  /\ remaining' = remaining - 1
  /\ UNCHANGED <<aside, tracing, roster, current_agent, input_items, exchange_count,
                 turns, site, run_agent, pre>>

ApplyAction ==
  /\ pc = "apply"
  /\ remaining > 0
  /\ \E e \in ActionEvents(app) :
       LET r == invoke(run_agent, e, context)
       IN /\ context' = r.ctx
          /\ new_items' = new_items \o r.items
          /\ err' = r.err
          /\ pc' = IF r.err = NoError THEN "apply" ELSE "crashed"
          /\ Applied(e)
  /\ remaining' = remaining - 1
  /\ UNCHANGED <<aside, tracing, roster, current_agent, input_items, exchange_count, turns, site,
                 run_agent, pre>>

\* Mutant of ApplyHandoff: the events the decision returned after the handoff
\* stay to be applied.
ApplyHandoffContinues ==
  /\ pc = "apply"
  /\ remaining > 0
  /\ \E e \in HandoffEvents(app) :
       LET r == executeHandoff(handoffs, run_agent, e, context)
       IN /\ context' = r.ctx
          /\ new_items' = new_items \o r.items
          /\ run_agent' = r.agent
          /\ err' = r.err
          /\ pc' = IF r.err = NoError THEN "apply" ELSE "crashed"
          /\ Applied(e)
  /\ remaining' = remaining - 1
  /\ UNCHANGED <<aside, tracing, roster, current_agent, input_items, exchange_count,
                 turns, site, pre>>

\* A handoff ends the turn: what the decision returned after it is dropped.
ApplyHandoff ==
  /\ pc = "apply"
  /\ remaining > 0
  /\ \E e \in HandoffEvents(app) :
       LET r == executeHandoff(handoffs, run_agent, e, context)
       IN /\ context' = r.ctx
          /\ new_items' = new_items \o r.items
          /\ run_agent' = r.agent
          /\ err' = r.err
          /\ pc' = IF r.err = NoError THEN "apply" ELSE "crashed"
          /\ Applied(e)
  /\ remaining' = 0
  /\ UNCHANGED <<aside, tracing, roster, current_agent, input_items, exchange_count, turns, site, pre>>

\* Mutant of RunReturns: the run is given back while events of the decision
\* are still to be applied.
RunReturnsEarly == pc = "apply"

\* input_items = result.to_input_list(); current_agent = result.last_agent
RunReturns == pc = "apply" /\ remaining = 0

(* ========================== DEBATE DRIVER ============================== *)
\* while True: if context.winner: ... break
CheckWinner ==
  /\ pc = "top"
  /\ pc' = IF Truthy(context.winner) THEN "done" ELSE "input"
  /\ UNCHANGED <<aside, tracing, roster, driver, turns, site, engine, err, pre>>

\* user_input.lower() == 'status': print, continue
\* Mutant of Status: the input is appended to input_items before the branch
\* is taken.
StatusAppends ==
  /\ pc = "input"
  /\ \E u \in DebateInputs :
       /\ Lower(u) = "status"
       /\ input_items' = AppendUserInput(input_items, u)
  /\ pc' = "top"
  /\ UNCHANGED <<aside, tracing, roster, current_agent, context, exchange_count, turns,
                 site, engine, err, pre>>

Status ==
  /\ pc = "input"
  /\ \E u \in DebateInputs : Lower(u) = "status"
  /\ pc' = "top"
  /\ UNCHANGED <<aside, tracing, roster, driver, turns, site, engine, err, pre>>

\* Any other input: append it and run the current agent.
Submit ==
  /\ pc = "input"
  /\ \E u \in DebateInputs :
       /\ Lower(u) # "status"
       /\ StartRun(current_agent, input_items, u, "run")
  /\ UNCHANGED exchange_count

Return ==
  /\ RunReturns
  /\ site = "run"
  /\ input_items' = ToInputList(input_items, new_items)
  /\ current_agent' = run_agent
  /\ pc' = "top"
  /\ UNCHANGED <<aside, tracing, roster, context, exchange_count, turns, site, engine, err, pre>>

(* ========================= BOLLYWOOD DRIVER ============================ *)
\* exchange_count += 1, then the first run of the exchange.
BeginExchange ==
  /\ pc = "b_top"
  /\ exchange_count' = exchange_count + 1
  /\ StartRun(current_agent, input_items, ContinuePrompt, "first")

\* The first run returns; the second run of the exchange starts.
ReturnFirst ==
  /\ RunReturns
  /\ site = "first"
  /\ StartRun(run_agent, ToInputList(input_items, new_items), ContinuePrompt, "second")
  /\ UNCHANGED exchange_count

\* The second run returns; main asks the user what to do.
ReturnSecond ==
  /\ RunReturns
  /\ site = "second"
  /\ input_items' = ToInputList(input_items, new_items)
  /\ current_agent' = run_agent
  /\ pc' = "b_input"
  /\ UNCHANGED <<aside, tracing, roster, context, exchange_count, turns, site, engine, err, pre>>

Stop ==
  /\ pc = "b_input"
  /\ \E u \in BollywoodInputs : Lower(Strip(u)) = "stop"
  /\ pc' = "done"
  /\ UNCHANGED <<aside, tracing, roster, driver, turns, site, engine, err, pre>>

\* 'status' prints and continues; so does every input that is neither
\* 'stop' nor an 'explain <word>'.
NextExchange ==
  /\ pc = "b_input"
  /\ \E u \in BollywoodInputs :
       /\ Lower(Strip(u)) # "stop"
       /\ ~(/\ Lower(Strip(u)) # "status"
            /\ StartsWithExplain(Lower(Strip(u)))
            /\ WordToExplain(Strip(u)) # "")
  /\ pc' = "b_top"
  /\ UNCHANGED <<aside, tracing, roster, driver, turns, site, engine, err, pre>>

\* 'explain <word>': current_agent = translator_agent, then a run.
Explain ==
  /\ pc = "b_input"
  /\ \E u \in BollywoodInputs :
       /\ Lower(Strip(u)) \notin {"stop", "status"}
       /\ StartsWithExplain(Lower(Strip(u)))
       /\ WordToExplain(Strip(u)) # ""
       /\ StartRun(HindiTranslator, input_items, ExplainPrompt(WordToExplain(Strip(u))),
                   "explain")
  /\ UNCHANGED exchange_count

\* The explain run returns; main waits for Enter.
ReturnExplain ==
  /\ RunReturns
  /\ site = "explain"
  /\ input_items' = ToInputList(input_items, new_items)
  /\ current_agent' = run_agent
  /\ pc' = "b_enter"
  /\ UNCHANGED <<aside, tracing, roster, context, exchange_count, turns, site, engine, err, pre>>

PressEnter ==
  /\ pc = "b_enter"
  /\ pc' = "b_top"
  /\ UNCHANGED <<aside, tracing, roster, driver, turns, site, engine, err, pre>>

(* ========================== SPECIFICATION ============================== *)
Next ==
  \/ Assemble
  \/ StartMain
  \/ DecideOk
  \/ DecideFail
  \/ ApplyMessage
  \/ ApplyAction
  \/ ApplyHandoff
  \/ CheckWinner
  \/ Status
  \/ Submit
  \/ Return
  \/ BeginExchange
  \/ ReturnFirst
  \/ ReturnSecond
  \/ Stop
  \/ NextExchange
  \/ Explain
  \/ ReturnExplain
  \/ PressEnter

Spec == Init /\ [][Next]_vars

(* ============================== CLAIMS ================================= *)
\* An event has just been applied: step is that event and the state it found.
JustApplied == pc \in {"apply", "crashed"} /\ turn_events # <<>>

\* The run has been given back to main and no other run has started.
Returned == pc \in {"top", "input", "done", "b_input", "b_enter", "b_top"} /\ turns > 0

\* C1: for every agent of the roster and every name, resolveHandoff succeeds
\* exactly when an edge from that agent to that name was registered (by the
\* handoffs= argument or by a handoffs.append), and fails with
\* UnknownEdgeError otherwise, also for a roster member that is not wired
\* from that agent; and this is what every requested handoff met.  The
\* edges change only while the roster is assembled, so all pairs are looked
\* up after each append and at the top of main's loop, and the requested
\* pair at every handoff.
ResolveIffRegistered ==
  /\ (pc \in {"assemble", "top", "b_top"}) =>
       \A from \in Agents(app), to \in Agents(app) \cup {Stranger} :
         LET r == resolveHandoff(handoffs, from, to)
         IN /\ (r.err = NoError) <=> (<<from, to>> \in registered)
            /\ (<<from, to>> \notin registered) => r.err = "UnknownEdgeError"
            /\ (r.err = NoError) => r.edge.agent = to
  /\ (JustApplied /\ step.event.kind = "handoff") =>
       ((err = "UnknownEdgeError") <=> (<<step.agent, step.event.name>> \notin registered))

\* C1 witness: a handoff to a roster member that is not wired from the
\* requesting agent was requested and refused, while another agent is wired to it.
RefusedRosterTarget ==
  /\ JustApplied
  /\ step.event.kind = "handoff"
  /\ step.event.name \in Agents(app)
  /\ <<step.agent, step.event.name>> \notin registered
  /\ \E other \in Agents(app) : <<other, step.event.name>> \in registered
  /\ err = "UnknownEdgeError"

\* C2: exactly one agent is current, and main's current agent goes from X to
\* Y # X only along a registered edge X -> Y, with HandoffOccurred(X, Y)
\* among the entries the same step adds to the transcript.
CurrentChangesOnlyByHandoff ==
  [][ /\ current_agent' \in Agents(app)
      /\ (current_agent' # current_agent) =>
           /\ <<current_agent, current_agent'>> \in registered
           /\ \E i \in (Len(input_items) + 1)..Len(input_items') :
                input_items'[i] = HandoffOccurred(current_agent, current_agent')
    ]_vars

\* C3: a handoff requested by the current agent A to a target that is not in
\* A's edge set ends in UnknownEdgeError with A still current and the
\* transcript as the request found it.
UnknownEdgeLeavesState ==
  (JustApplied /\ step.event.kind = "handoff"
     /\ <<step.agent, step.event.name>> \notin registered) =>
    /\ pc = "crashed"
    /\ err = "UnknownEdgeError"
    /\ run_agent = step.agent
    /\ current_agent = step.agent
    /\ Transcript = step.items

\* C3 witness: after at least one entry of the turn, an agent asked for a
\* target outside its edge set.
UnknownEdgeRequested ==
  /\ JustApplied
  /\ step.event.kind = "handoff"
  /\ <<step.agent, step.event.name>> \notin registered
  /\ Len(turn_events) >= 2
  /\ err = "UnknownEdgeError"

\* C4: main's transcript only grows: every step leaves each entry of
\* input_items at its position and with its content.
TranscriptAppendOnly == [][IsPrefix(input_items, input_items')]_vars

\* C4 witness: a second turn has run on a transcript that the first turn
\* had already extended.
SecondTurnExtended ==
  /\ Returned
  /\ turns >= 2
  /\ Len(pre.items) >= 2
  /\ Len(input_items) > Len(pre.items) + 1

\* The events of the turn are N actions, permitted to agent and with valid
\* params, and then one handoff along a registered edge whose hook does not raise.
ActionsThenHandoff(evs, agent) ==
  /\ Len(evs) >= 1
  /\ \A i \in 1..(Len(evs) - 1) :
       /\ evs[i].kind = "action"
       /\ evs[i].valid
       /\ evs[i].name \in Tools(agent)
  /\ evs[Len(evs)].kind = "handoff"
  /\ <<agent, evs[Len(evs)].name>> \in registered
  /\ ~evs[Len(evs)].raises

InvocationAppendsPair ==
  (JustApplied /\ step.event.kind = "action" /\ step.event.valid
     /\ step.event.name \in Tools(step.agent)) =>
    /\ pc = "apply"
    /\ err = NoError
    /\ Len(Transcript) = Len(step.items) + 2
    /\ IsPrefix(step.items, Transcript)
    /\ Transcript[Len(step.items) + 1] =
         ActionInvoked(step.agent, step.event.name, step.event.params)
    /\ LET res == Transcript[Len(step.items) + 2]
       IN /\ res.type = "ActionResult"
          /\ res.agent = step.agent
          /\ res.action = step.event.name
          /\ step.event.raises <=> (res.result[1] = "ActionEffectFailure")

\* C6 witness: the effect of a permitted action with valid params raised.
EffectRaised ==
  /\ JustApplied
  /\ step.event.kind = "action"
  /\ step.event.valid
  /\ step.event.raises
  /\ step.event.name \in Tools(step.agent)
  /\ Transcript[Len(Transcript)].result[1] = "ActionEffectFailure"

\* C7: invoking an action that the current agent was not granted ends in
\* UnknownActionError and appends nothing, also when another agent of the
\* roster was granted that action.
UngrantedActionRefused ==
  (JustApplied /\ step.event.kind = "action"
     /\ step.event.name \notin Tools(step.agent)) =>
    /\ pc = "crashed"
    /\ err = "UnknownActionError"
    /\ Transcript = step.items
    /\ context = step.context

\* C7 witness: the refused action is one another agent of the roster holds.
UngrantedActionOfAnotherAgent ==
  /\ JustApplied
  /\ step.event.kind = "action"
  /\ step.event.name \notin Tools(step.agent)
  /\ \E other \in Agents(app) : step.event.name \in Tools(other)
  /\ err = "UnknownActionError"

\* C8: when the decision call of a turn fails, main's transcript and context
\* are what they were before the turn started, the new user input included.
DecisionFailureLeavesNoTrace ==
  (pc = "crashed" /\ err = "DecisionCapabilityFailure") =>
    /\ input_items = pre.items
    /\ context = pre.context

FailedTurnLeavesNoEffect ==
  (pc = "crashed"
     /\ \E i \in 1..(Len(turn_events) - 1) :
          /\ turn_events[i].kind = "action"
          /\ turn_events[i].valid
          /\ ~turn_events[i].raises) =>
    /\ context = pre.context
    /\ input_items = pre.items


\* The hook on the edge from -> to ("no_hook" when the edge has none).
HookOf(from, to) == resolveHandoff(handoffs, from, to).edge.on_handoff

\* C11: a handoff resolves the edge, runs the hook on the context, appends
\* HandoffOccurred and makes the target current, in that order: a refused
\* edge leaves the context alone, a failed hook leaves no HandoffOccurred
\* and the source current, a successful handoff leaves the hook's context,
\* then the entry, then the target; and when the target next decides, the
\* context is the one the hook left.
HandoffStepsInOrder ==
  /\ (JustApplied /\ step.event.kind = "handoff") =>
       LET hook == HookOf(step.agent, step.event.name)
       IN /\ (err = "UnknownEdgeError") =>
               (context = step.context /\ Transcript = step.items /\ run_agent = step.agent)
          /\ (err = "HandoffHookFailure") =>
               (Transcript = step.items /\ run_agent = step.agent)
          /\ (err = NoError) =>
               /\ context = RunHook(hook, step.context, HookStmts(hook))
               /\ Transcript = Append(step.items, HandoffOccurred(step.agent, step.event.name))
               /\ run_agent = step.event.name
  /\ (/\ pc = "decide"
      /\ step.event.kind = "handoff"
      /\ <<step.agent, step.event.name>> \in registered
      /\ run_agent = step.event.name) =>
       LET hook == HookOf(step.agent, step.event.name)
       IN /\ context = RunHook(hook, step.context, HookStmts(hook))
          /\ input_items[Len(step.items) + 1] = HandoffOccurred(step.agent, step.event.name)

\* C11 witness: the target of a handoff with a hook is about to decide, on a
\* context in which the hook has named it the current speaker.
TargetDecidesAfterHook ==
  /\ pc = "decide"
  /\ step.event.kind = "handoff"
  /\ <<step.agent, step.event.name>> \in registered
  /\ HookOf(step.agent, step.event.name) # NoHook
  /\ run_agent = step.event.name
  /\ context # step.context
  /\ context.current_speaker # ""

\* What the entries of one applied event look like: <<type, name>> each.
EntrySig(e) ==
  CASE e.kind = "message" -> << <<"Message", e.params.text>> >>
    [] e.kind = "action" -> << <<"ActionInvoked", e.name>>, <<"ActionResult", e.name>> >>
    [] e.kind = "handoff" -> << <<"HandoffOccurred", e.name>> >>
    [] OTHER -> <<>>

RECURSIVE Sig(_)
Sig(evs) == IF evs = <<>> THEN <<>>
            ELSE Sig(SubSeq(evs, 1, Len(evs) - 1)) \o EntrySig(evs[Len(evs)])

\* <<type, name>> of a transcript entry of a run.
SigOf(item) ==
  CASE item.type = "Message" -> <<"Message", item.text>>
    [] item.type = "HandoffOccurred" -> <<"HandoffOccurred", item.target>>
    [] OTHER -> <<item.type, item.action>>

\* The agent a transcript entry of a run is attributed to.
AttributedTo(item) == IF item.type = "HandoffOccurred" THEN item.source ELSE item.agent

\* C12: the entries of a turn are those of its events, in the order the
\* events were returned (an event that ended the run leaves none); a handoff
\* is the last event applied, so at most one is, and nothing follows its
\* entry; every entry of the turn belongs to the agent that decided.
EventsAppliedInOrder ==
  LET refused == pc = "crashed" /\ err # "DecisionCapabilityFailure"
      applied == IF refused THEN SubSeq(turn_events, 1, Len(turn_events) - 1)
                 ELSE turn_events
  IN /\ [k \in 1..Len(new_items) |-> SigOf(new_items[k])] = Sig(applied)
     /\ \A i \in 1..Len(turn_events) :
          turn_events[i].kind = "handoff" => i = Len(turn_events)
     /\ \A k \in 1..Len(new_items) :
          /\ new_items[k].type = "HandoffOccurred" => k = Len(new_items)
          /\ AttributedTo(new_items[k]) = step.agent
     /\ (JustApplied /\ step.event.kind = "handoff") => remaining = 0

\* C12 witness: the decision returned a handoff and one more event after it;
\* the handoff was applied and the turn ended there.
HandoffBeforeAnotherEvent ==
  /\ JustApplied
  /\ step.event.kind = "handoff"
  /\ step.left = 2
  /\ err = NoError
  /\ remaining = 0
  /\ new_items = <<HandoffOccurred(step.agent, step.event.name)>>

\* One event applied to the outcome so far: nothing after an error.
ReplayEvent(s, e) ==
  IF s.err # NoError THEN s
  ELSE IF e.kind = "message"
    THEN [s EXCEPT !.items = Append(@, Message(s.agent, e.params.text))]
  ELSE IF e.kind = "action"
    THEN LET r == invoke(s.agent, e, s.ctx)
         IN [agent |-> s.agent, ctx |-> r.ctx, items |-> s.items \o r.items, err |-> r.err]
  ELSE LET r == executeHandoff(handoffs, s.agent, e, s.ctx)
       IN [agent |-> r.agent, ctx |-> r.ctx, items |-> s.items \o r.items, err |-> r.err]

\* The outcome of applying evs, in order, from the agent and context given.
Replay(agent, ctx, evs) ==
  LET after[i \in 0..Len(evs)] ==
        IF i = 0 THEN [agent |-> agent, ctx |-> ctx, items |-> <<>>, err |-> NoError]
        ELSE ReplayEvent(after[i - 1], evs[i])
  IN after[Len(evs)]

RetryLeavesContext ==
  (/\ JustApplied
   /\ Len(turn_events) >= 2
   /\ turn_events[Len(turn_events)] = turn_events[Len(turn_events) - 1]
   /\ step.event.kind = "action"
   /\ step.event.valid
   /\ ~step.event.raises
   /\ step.event.name \in Tools(step.agent)) =>
    context = step.context


\* C16: a decision call starts only from main's own lines or from the return
\* of the run before it, never while a decision call is in flight or while
\* events of the last decision are still to be applied, and it is given the
\* transcript with every entry of the turn before.
TurnsSequential ==
  [][ (pc' = "decide") =>
        /\ pc \in {"input", "b_top", "b_input", "apply"}
        /\ remaining = 0
        /\ turns' = turns + 1
        /\ IsPrefix(input_items \o new_items, input_items') \/ pc # "apply"
        /\ Len(input_items') = Len(Transcript) + 1 \/ pc = "apply"
        /\ new_items' = <<>>
    ]_vars

\* C16 witness: the decision call of the second turn is in flight and the
\* first turn applied two events.
SecondDecisionAfterTwoEvents ==
  /\ pc = "decide"
  /\ turns = 2
  /\ total_events = 2
  /\ Len(input_items) >= 4

\* The failure an invocation reports into the transcript, if it reports one.
ReportedFailure(e) ==
  IF ~e.valid THEN <<"InvalidParamsError">> ELSE <<"ActionEffectFailure", e.name>>

\* The last applied event is a granted action whose params are invalid or
\* whose effect raised.
RecoverableFailure ==
  /\ step.event.kind = "action"
  /\ step.event.name \in Tools(step.agent)
  /\ ~step.event.valid \/ step.event.raises

\* C17: an invocation with invalid params or a raising effect leaves the run
\* going and its failure as the ActionResult, which is in the transcript the
\* next decision call is given; an action that was not granted and a handoff
\* along no edge end the run, with UnknownActionError and UnknownEdgeError.
ErrorPropagation ==
  /\ (JustApplied /\ RecoverableFailure) =>
       /\ pc = "apply"
       /\ err = NoError
       /\ Transcript[Len(Transcript)] =
            ActionResult(step.agent, step.event.name, ReportedFailure(step.event))
  /\ (pc = "decide" /\ RecoverableFailure) =>
       input_items[Len(step.items) + 2] =
         ActionResult(step.agent, step.event.name, ReportedFailure(step.event))
  /\ (JustApplied /\ step.event.kind = "action" /\ step.event.name \notin Tools(step.agent)) =>
       (pc = "crashed" /\ err = "UnknownActionError")
  /\ (JustApplied /\ step.event.kind = "handoff"
        /\ <<step.agent, step.event.name>> \notin registered) =>
       (pc = "crashed" /\ err = "UnknownEdgeError")
  /\ (err \in {"UnknownActionError", "UnknownEdgeError"}) => pc = "crashed"
  /\ (err \in {"InvalidParamsError", "ActionEffectFailure"}) => FALSE

\* C17 witness: a decision call is in flight on a transcript whose last turn
\* recorded an InvalidParamsError.
DecisionSeesInvalidParams ==
  /\ pc = "decide"
  /\ turns >= 2
  /\ RecoverableFailure
  /\ ~step.event.valid
  /\ input_items[Len(step.items) + 2] =
       ActionResult(step.agent, step.event.name, <<"InvalidParamsError">>)
(* ===================== TWO CONVERSATIONS SIDE BY SIDE ================== *)
\* Two calls of main() in one process, interleaved turn by turn.  Each call
\* has its own locals (current_agent, input_items, context); the agents and
\* their handoffs lists are the module's, shared and fully assembled.
MaxPairTurns == 1

Conversations == {1, 2}

\* The fields of the context class whose default is a list or a dict.
MutableDefaults(a) ==
  IF a = "debate"
    THEN {"speaker_order", "speaker_scores", "team_scores", "debate_history",
          "speaker_rankings"}
    ELSE {"argument_history", "user_questions", "translations_given"}

\* Mutant of SharedFields: every instance holds the class's default objects
\* themselves (defaults kept as plain class attributes).
SharedFieldsAll(a) == MutableDefaults(a)

\* The fields in which an instance holds the very object the class holds as
\* default.  The context classes derive from pydantic's BaseModel, which
\* gives every instance its own copy of each default: no field is shared.
SharedFields(a) == {}

\* Context(): the mutable fields come from the class's default objects, as
\* they are now; the others are the literals of the class body.
Construct(defaults, a) ==
  [f \in DOMAIN InitialContext(a) |->
     IF f \in MutableDefaults(a) THEN defaults[f] ELSE InitialContext(a)[f]]

\* An in-place change of c's shared fields reaches every holder of them.
WriteThrough(holder, c, a) ==
  [f \in DOMAIN holder |-> IF f \in SharedFields(a) THEN c[f] ELSE holder[f]]

\* Every module-level handoffs.append has run.
RECURSIVE AppendAll(_, _)
AppendAll(h, stmts) ==
  IF stmts = <<>> THEN h
  ELSE AppendAll(HandoffsAppend(h, Head(stmts)[1], Head(stmts)[2]), Tail(stmts))

AssembledHandoffs(a) == AppendAll(ConstructedHandoffs(a), AppendStatements(a))

NotStarted(a) ==
  [started |-> FALSE, crashed |-> FALSE, turns |-> 0, current_agent |-> EntryAgent(a),
   input_items |-> <<>>, context |-> InitialContext(a)]

PairInit ==
  /\ app \in Apps
  /\ pc = "pair"
  /\ asm = Len(AppendStatements(app)) + 1
  /\ handoffs = AssembledHandoffs(app)
  /\ registered = EdgePairs(AssembledHandoffs(app))
  /\ current_agent = EntryAgent(app)
  /\ input_items = <<>>
  /\ context = InitialContext(app)
  /\ exchange_count = 0
  /\ turns = 0
  /\ site = "none"
  /\ run_agent = EntryAgent(app)
  /\ new_items = <<>>
  /\ remaining = 0
  /\ total_events = 0
  /\ err = NoError
  /\ pre = [items |-> <<>>, context |-> InitialContext(app), agent |-> EntryAgent(app)]
  /\ step = [event |-> NoEvent, agent |-> EntryAgent(app), items |-> <<>>,
             context |-> InitialContext(app), left |-> 0]
  /\ turn_events = <<>>
  /\ conversation_id = None
  /\ group_id = None
  /\ convs = [defaults |-> [f \in MutableDefaults(app) |-> InitialContext(app)[f]],
              runs |-> [i \in Conversations |-> NotStarted(app)]]
  /\ names = <<>>
  /\ reg_err = NoRegistration

main_only == <<app, pc, asm, handoffs, registered, current_agent, input_items, context,
               exchange_count, turns, site, run_agent, new_items, remaining,
               total_events, err, pre, step, turn_events, conversation_id, group_id>>

\* main() is called: current_agent, input_items = [], context = Context().
PairStart(i) ==
  /\ pc = "pair"
  /\ ~convs.runs[i].started
  /\ convs' = [convs EXCEPT !.runs[i] =
                 [started |-> TRUE, crashed |-> FALSE, turns |-> 0,
                  current_agent |-> EntryAgent(app), input_items |-> <<>>,
                  context |-> Construct(convs.defaults, app)]]
  /\ UNCHANGED <<main_only, names, reg_err>>

\* One turn of conversation i: the user message is appended, the decision
\* returns at most one event, the event is applied to i's context; a failed
\* run ends the conversation with what was done in place.
PairTurn(i) ==
  /\ pc = "pair"
  /\ convs.runs[i].started
  /\ ~convs.runs[i].crashed
  /\ convs.runs[i].turns < MaxPairTurns
  /\ \E evs \in {<<>>} \cup {<<e>> : e \in MessageEvents \cup ActionEvents(app)
                                             \cup HandoffEvents(app)} :
       \E r \in {Replay(convs.runs[i].current_agent, convs.runs[i].context, evs)} :
         LET me == convs.runs[i]
             items == AppendUserInput(me.input_items, "go")
             mine == [started |-> TRUE, crashed |-> r.err # NoError, turns |-> me.turns + 1,
                      current_agent |-> IF r.err = NoError THEN r.agent ELSE me.current_agent,
                      input_items |-> IF r.err = NoError THEN ToInputList(items, r.items)
                                      ELSE items,
                      context |-> r.ctx]
         IN convs' = [defaults |-> WriteThrough(convs.defaults, r.ctx, app),
                      runs |-> [j \in Conversations |->
                                  IF j = i THEN mine
                                  ELSE IF convs.runs[j].started
                                    THEN [convs.runs[j] EXCEPT
                                            !.context = WriteThrough(@, r.ctx, app)]
                                  ELSE convs.runs[j]]]
  /\ UNCHANGED <<main_only, names, reg_err>>

PairNext ==
  \/ \E i \in Conversations : PairStart(i)
  \/ \E i \in Conversations : PairTurn(i)

SpecPair == PairInit /\ [][PairNext]_vars

\* C15: a step of one conversation (its start or a turn of it) leaves the
\* other conversation's context, transcript and current agent as they were,
\* and a conversation starts on the defaults of the class whatever the other
\* has done to its own lists and dicts.
ConversationsShareNothing ==
  [][ \A i \in Conversations :
        /\ (convs'.runs[i] # convs.runs[i]) =>
             \A j \in Conversations \ {i} : convs'.runs[j] = convs.runs[j]
        /\ (~convs.runs[i].started /\ convs'.runs[i].started) =>
             convs'.runs[i].context = InitialContext(app)
    ]_vars

\* C15 witness: both conversations have had a turn that changed their own
\* history list, and the two contexts differ.
BothConversationsChanged ==
  /\ pc = "pair"
  /\ \A i \in Conversations :
       /\ convs.runs[i].turns >= 1
       /\ convs.runs[i].context # InitialContext(app)
       /\ \E f \in MutableDefaults(app) :
            convs.runs[i].context[f] # InitialContext(app)[f]
  /\ convs.runs[1].context # convs.runs[2].context

(* ========================= ROSTER REGISTRATION ========================= *)
\* The roster as a registry of agent names.  The source builds its agents
\* with Agent(name=...) and keeps no registry; register is the contract of
\* the specification (4.1).
MaxRoster == 3

\* The names of the Agent(...) definitions, in the order of the source.
AgentDefinitions(a) ==
  IF a = "debate"
    THEN <<OG1Speaker, OO1Speaker, OG2Speaker, OO2Speaker, CG1Speaker, CO1Speaker,
           CG2Speaker, CO2Speaker, DebateJudge, DebateModerator>>
    ELSE <<Character1, Character2, HindiTranslator, ArgumentModerator>>

\* Mutant of register: the name is added whether or not it is there.
registerAgain(r, name) == [err |-> NoError, roster |-> Append(r, name)]

\* register(agent): DuplicateNameError and the roster as it was when the
\* name is in it, the roster with the name added otherwise.
register(r, name) ==
  IF \E i \in 1..Len(r) : r[i] = name
    THEN [err |-> "DuplicateNameError", roster |-> r]
    ELSE [err |-> NoError, roster |-> Append(r, name)]

\* register called for each name of defs in turn, stopping at a failure.
RECURSIVE RegisterAll(_, _)
RegisterAll(r, defs) ==
  IF defs = <<>> THEN [err |-> NoError, roster |-> r]
  ELSE LET one == register(r, Head(defs))
       IN IF one.err # NoError THEN one ELSE RegisterAll(one.roster, Tail(defs))

RosterInit ==
  /\ app \in Apps
  /\ pc = "roster"
  /\ asm = 1
  /\ handoffs = ConstructedHandoffs(app)
  /\ registered = EdgePairs(ConstructedHandoffs(app))
  /\ current_agent = EntryAgent(app)
  /\ input_items = <<>>
  /\ context = InitialContext(app)
  /\ exchange_count = 0
  /\ turns = 0
  /\ site = "none"
  /\ run_agent = EntryAgent(app)
  /\ new_items = <<>>
  /\ remaining = 0
  /\ total_events = 0
  /\ err = NoError
  /\ pre = [items |-> <<>>, context |-> InitialContext(app), agent |-> EntryAgent(app)]
  /\ step = [event |-> NoEvent, agent |-> EntryAgent(app), items |-> <<>>,
             context |-> InitialContext(app), left |-> 0]
  /\ turn_events = <<>>
  /\ conversation_id = None
  /\ group_id = None
  /\ convs = NoConversations
  /\ names = <<>>
  /\ reg_err = NoRegistration

\* One register call, for any agent of the example, registered or not.
Register ==
  /\ pc = "roster"
  /\ \E name \in Agents(app) :
       LET r == register(names, name)
       IN /\ Len(r.roster) <= MaxRoster
          /\ names' = r.roster
          /\ reg_err' = [name |-> name, err |-> r.err]
  /\ UNCHANGED <<main_only, convs>>

RosterNext == Register

SpecRoster == RosterInit /\ [][RosterNext]_vars

\* C18: a register call for a name that is in the roster ends in
\* DuplicateNameError with the roster as it was, any other adds the name at
\* the end; the names of the roster stay distinct; and the agents of the
\* source, registered in the order they are defined, all go in.
RegisterRejectsDuplicates ==
  [][ LET name == reg_err'.name
          there == \E i \in 1..Len(names) : names[i] = name
      IN /\ there => (reg_err'.err = "DuplicateNameError" /\ names' = names)
         /\ ~there => (reg_err'.err = NoError /\ names' = Append(names, name))
         /\ \A i, j \in 1..Len(names') : (i # j) => (names'[i] # names'[j])
         /\ RegisterAll(<<>>, AgentDefinitions(app)).err = NoError
         /\ Len(RegisterAll(<<>>, AgentDefinitions(app)).roster) = Cardinality(Agents(app))
    ]_vars

\* C18 witness: a name of a roster of two or more was registered again and
\* refused.
DuplicateRefused ==
  /\ pc = "roster"
  /\ Len(names) >= 2
  /\ reg_err.err = "DuplicateNameError"
  /\ \E i \in 1..Len(names) : names[i] = reg_err.name

\* Every edge of h leads from an agent of the example to an agent of it.
Closed(h) == \A p \in EdgePairs(h) : p[1] \in Agents(app) /\ p[2] \in Agents(app)

\* C19: every edge of every agent leads to an agent of the same roster, and
\* once main runs (so from the first turn on) no step adds or removes an edge
\* or changes an edge's hook.
GraphClosedAndFrozen ==
  [][ /\ (pc = "assemble") => (Closed(handoffs) /\ Closed(handoffs'))
      /\ (pc # "assemble" \/ turns > 0) => handoffs' = handoffs
    ]_vars

\* C19 witness: the second turn runs on the graph that the module-level
\* appends completed.
SecondTurnOnAssembledGraph ==
  /\ turns >= 2
  /\ pc = "apply"
  /\ handoffs = AssembledHandoffs(app)
  /\ handoffs # ConstructedHandoffs(app)

\* C20: main takes one conversation_id before its first turn and never
\* changes it, and every turn runs in a trace whose group_id is that
\* identifier.
CorrelationIdThreaded ==
  [][ /\ (conversation_id # None) => conversation_id' = conversation_id
      /\ (turns' > turns) =>
           (conversation_id \in ConversationIds /\ group_id' = conversation_id)
      /\ (turns > 0) => (group_id = conversation_id /\ group_id' = group_id)
    ]_vars

\* C20 witness: the third trace block of the Bollywood driver (the explain
\* run) is open after the two runs of an exchange, under the same identifier.
ExplainRunInSameGroup ==
  /\ site = "explain"
  /\ turns = 3
  /\ pc = "apply"
  /\ conversation_id \in ConversationIds
  /\ group_id = conversation_id
(* ===================== TOOLS CALLED ON A CONTEXT ======================= *)
\* The tools and hooks of one concern, called to completion in any order on
\* a context that starts fresh.  "scoring" is assign_speakers, score_speech
\* and rank_speakers; "order" is advance_speaker among the hooks that also
\* write current_speaker_role, and the status tool; "rounds" is every tool
\* and hook of the Bollywood example.
\* Calls of advance_speaker made on one context.
MaxAdvance == 9
\* Calls of the other tools and hooks made on one context.
MaxCalls == 3

Suites == {"scoring", "order", "rounds"}

SuiteApp(s) == IF s = "rounds" THEN "bollywood" ELSE "debate"

\* <<tool, params>> of the suite.
SuiteCalls(s) ==
  CASE s = "scoring" ->
         {<<"assign_speakers", SpeakerAssignment>>, <<"rank_speakers", NoParams>>}
         \cup {<<"score_speech", sp>> : sp \in ScoreParams}
    [] s = "order" -> {<<"advance_speaker", NoParams>>, <<"get_debate_status", NoParams>>}
    [] OTHER -> Calls("bollywood")

SuiteHooks(s) ==
  CASE s = "scoring" -> {}
    [] s = "order" -> {"on_opening_opp_1_handoff"}
    [] OTHER -> {"on_character_1_handoff", "on_character_2_handoff", "on_translator_handoff"}

\* How many of the calls made so far were calls of the tool or hook named.
CallsOf(evs, name) == Cardinality({i \in 1..Len(evs) : evs[i].name = name})

CallsInit ==
  /\ site \in Suites
  /\ app = SuiteApp(site)
  /\ pc = "calls"
  /\ asm = Len(AppendStatements(app)) + 1
  /\ handoffs = AssembledHandoffs(app)
  /\ registered = EdgePairs(AssembledHandoffs(app))
  /\ current_agent = EntryAgent(app)
  /\ input_items = <<>>
  /\ context = InitialContext(app)
  /\ exchange_count = 0
  /\ turns = 0
  /\ run_agent = EntryAgent(app)
  /\ new_items = <<>>
  /\ remaining = 0
  /\ total_events = 0
  /\ err = NoError
  /\ pre = [items |-> <<>>, context |-> InitialContext(app), agent |-> EntryAgent(app)]
  /\ step = [event |-> NoEvent, agent |-> EntryAgent(app), items |-> <<>>,
             context |-> InitialContext(app), left |-> 0]
  /\ turn_events = <<>>
  /\ conversation_id = None
  /\ group_id = None
  /\ convs = NoConversations
  /\ names = <<>>
  /\ reg_err = NoRegistration

\* What a call records: the call, the context it found and, in items, the
\* string it returned.
Called(e, result) ==
  /\ step' = [event |-> e, agent |-> run_agent, items |-> <<result>>,
              context |-> context, left |-> 0]
  /\ turn_events' = Append(turn_events, e)
  /\ total_events' = total_events + 1
  /\ UNCHANGED <<aside, tracing, roster, pc, current_agent, input_items, exchange_count,
                 turns, site, run_agent, new_items, remaining, err, pre>>

\* await tool(context, **params), to completion.
CallTool ==
  /\ pc = "calls"
  /\ \E cl \in SuiteCalls(site) :
       /\ IF cl[1] = "advance_speaker"
            THEN CallsOf(turn_events, "advance_speaker") < MaxAdvance
            ELSE total_events - CallsOf(turn_events, "advance_speaker") < MaxCalls
       /\ \E c2 \in {RunTool(cl[1], context, cl[2], ToolStmts(cl[1]))} :
            /\ context' = c2
            /\ Called(Ev("action", cl[1], cl[2], TRUE, FALSE, 0),
                      ToolResult(cl[1], context, c2, cl[2]))

\* await on_handoff(context), to completion.
CallHook ==
  /\ pc = "calls"
  /\ total_events - CallsOf(turn_events, "advance_speaker") < MaxCalls
  /\ \E hook \in SuiteHooks(site) :
       /\ context' = RunHook(hook, context, HookStmts(hook))
       /\ Called(Ev("hook", hook, NoParams, TRUE, FALSE, 0), <<>>)

CallsNext ==
  \/ CallTool
  \/ CallHook

SpecCalls == CallsInit /\ [][CallsNext]_vars

\* speaker_scores[s], for a speaker that has a score.
ScoreOf(d, s) == d[CHOOSE i \in 1..Len(d) : d[i][1] = s][2]

\* The speakers that have a score.
Scored(d) == {d[i][1] : i \in 1..Len(d)}

\* C21: when the last call of a sequence of score_speech and rank_speakers
\* calls (assign_speakers among them or not) is rank_speakers, then
\* speaker_rankings lists every scored speaker exactly once, in
\* non-increasing order of the scores as they are now, and winner is a
\* speaker whose score is the highest.
RankingListsScoredOnceInOrder ==
  (pc = "calls" /\ site = "scoring" /\ step.event.name = "rank_speakers") =>
    LET r == context.speaker_rankings
        d == context.speaker_scores
    IN /\ {r[j] : j \in 1..Len(r)} = Scored(d)
       /\ \A j, k \in 1..Len(r) : (j # k) => (r[j] # r[k])
       /\ \A j, k \in 1..Len(r) : (j < k) => (ScoreOf(d, r[j]) >= ScoreOf(d, r[k]))
       /\ (d # <<>>) =>
            /\ context.winner \in Scored(d)
            /\ \A s \in Scored(d) : ScoreOf(d, context.winner) >= ScoreOf(d, s)

\* C23: on a context that started fresh, the k-th call of advance_speaker,
\* for k = 1 .. 7, sets current_speaker_role to speaker_order[k] (counted
\* from 0, as the source does) and returns "Advanced to" that role; the 8th
\* and every later call leaves current_speaker_role as it was and returns
\* that all speakers have completed.
AdvanceVisitsSpeakerOrder ==
  [][ (pc = "calls" /\ site = "order" /\ total_events' = total_events + 1
       /\ step'.event.name = "advance_speaker") =>
        LET k == CallsOf(turn_events', "advance_speaker")
        IN IF k <= Len(SpeakerOrder) - 1
             THEN /\ context'.current_speaker_role = SpeakerOrder[k + 1]
                  /\ step'.items = << <<"Advanced to", SpeakerOrder[k + 1]>> >>
             ELSE /\ context'.current_speaker_role = context.current_speaker_role
                  /\ step'.items = << <<"All speakers have completed their speeches">> >>
    ]_vars

\* C23 witness: the ninth call of advance_speaker has returned, a hook having
\* rewritten the role somewhere on the way; the role is the last of the order.
NinthAdvanceReturned ==
  /\ pc = "calls"
  /\ site = "order"
  /\ step.event.name = "advance_speaker"
  /\ CallsOf(turn_events, "advance_speaker") = 9
  /\ CallsOf(turn_events, "on_opening_opp_1_handoff") >= 1
  /\ step.items = << <<"All speakers have completed their speeches">> >>
  /\ context.current_speaker_role = SpeakerOrder[Len(SpeakerOrder)]

Teams == {"Opening Government", "Opening Opposition", "Closing Government",
          "Closing Opposition"}

\* The speakers assigned to the two positions of a team.
TeamMembers(c, t) ==
  CASE t = "Opening Government" -> {c.opening_government_1, c.opening_government_2}
    [] t = "Opening Opposition" -> {c.opening_opposition_1, c.opening_opposition_2}
    [] t = "Closing Government" -> {c.closing_government_1, c.closing_government_2}
    [] OTHER -> {c.closing_opposition_1, c.closing_opposition_2}

\* The sum of the scores recorded in d for the speakers of set S.
RECURSIVE SumScores(_, _)
SumScores(d, S) ==
  IF d = <<>> THEN 0
  ELSE (IF Head(d)[1] \in S THEN Head(d)[2] ELSE 0) + SumScores(Tail(d), S)

\* C27: after any sequence of assign_speakers and score_speech calls every
\* entry of team_scores is the sum of the scores speaker_scores holds for
\* the team's two assigned speakers, and a score for a speaker of no team
\* leaves team_scores as it was.
TeamScoresAreSums ==
  (pc = "calls" /\ site = "scoring") =>
    /\ \A t \in Teams :
         context.team_scores[t] = SumScores(context.speaker_scores, TeamMembers(context, t))
    /\ (step.event.name = "score_speech"
        /\ \A t \in Teams : step.event.params.speaker \notin TeamMembers(step.context, t)) =>
         context.team_scores = step.context.team_scores

\* C28: current_speaker_index stays between 0 and len(speaker_order) - 1, so
\* the position the status output gives (current_speaker_index + 1, of 8) is
\* between 1 and 8, in get_debate_status as in main's status branch.
SpeakerIndexInRange ==
  (pc = "calls" /\ site = "order") =>
    /\ context.current_speaker_index \in 0..(Len(context.speaker_order) - 1)
    /\ context.current_speaker_index + 1 \in 1..8
    /\ (step.event.name = "get_debate_status") => step.items[1][5] \in 1..8

\* The positions of the 'dialogue' entries of an argument_history.
Dialogues(h) == {i \in 1..Len(h) : h[i].type = "dialogue"}

\* C30: after any sequence of tool and hook calls on a
\* BollywoodArgumentContext, current_round is the number of 'dialogue'
\* entries of argument_history and the i-th of them carries round = i.
RoundCountsDialogues ==
  (pc = "calls" /\ site = "rounds") =>
    LET h == context.argument_history
    IN /\ context.current_round = Cardinality(Dialogues(h))
       /\ \A i \in Dialogues(h) : h[i].round = Cardinality({j \in Dialogues(h) : j <= i})

\* C30 witness: two dialogues have been spoken with an entry of another kind
\* between them.
TwoDialoguesApart ==
  /\ pc = "calls"
  /\ site = "rounds"
  /\ context.current_round = 2
  /\ Len(context.argument_history) = 3
  /\ Dialogues(context.argument_history) = {1, 3}
  /\ step.event.name = "speak_hindi_dialogue"

\* character_<n>_name, for the character agent given.
CharacterName(c, agent) ==
  IF agent = Character1 THEN c.character_1_name ELSE c.character_2_name

\* C25: every handoff that makes Character 1 or Character 2 the running
\* agent, whichever agent it comes from, leaves current_speaker equal to
\* that character's name and a speaker_change entry for it as the newest
\* entry of argument_history, before the character decides anything.
CharacterHandoffSetsSpeaker ==
  (/\ app = "bollywood"
   /\ JustApplied
   /\ err = NoError
   /\ step.event.kind = "handoff"
   /\ step.event.name \in {Character1, Character2}) =>
    /\ run_agent = step.event.name
    /\ context.current_speaker = CharacterName(context, run_agent)
    /\ Len(context.argument_history) = Len(step.context.argument_history) + 1
    /\ context.argument_history[Len(context.argument_history)] =
         [type |-> "speaker_change", speaker |-> CharacterName(context, run_agent)]

\* The role identifier of each speaker agent: the one its hook writes.
SpeakerRole(agent) ==
  CASE agent = OG1Speaker -> "opening_gov_1"
    [] agent = OO1Speaker -> "opening_opp_1"
    [] agent = OG2Speaker -> "opening_gov_2"
    [] agent = OO2Speaker -> "opening_opp_2"
    [] agent = CG1Speaker -> "closing_gov_1"
    [] agent = CO1Speaker -> "closing_opp_1"
    [] agent = CG2Speaker -> "closing_gov_2"
    [] OTHER -> "closing_opp_2"

\* The name assigned to the position of a role.
AssignedName(c, role) ==
  CASE role = "opening_gov_1" -> c.opening_government_1
    [] role = "opening_opp_1" -> c.opening_opposition_1
    [] role = "opening_gov_2" -> c.opening_government_2
    [] role = "opening_opp_2" -> c.opening_opposition_2
    [] role = "closing_gov_1" -> c.closing_government_1
    [] role = "closing_opp_1" -> c.closing_opposition_1
    [] role = "closing_gov_2" -> c.closing_government_2
    [] OTHER -> c.closing_opposition_2

\* C26: in the debate, whenever a speaker agent is the current agent (main's
\* current_agent or the agent the run is in), current_speaker_role is that
\* speaker's role and current_speaker is the name assigned to its position.
SpeakerContextMatchesAgent ==
  (app = "debate") =>
    \A ag \in {current_agent, run_agent} \cap DebateSpeakers :
      /\ context.current_speaker_role = SpeakerRole(ag)
      /\ context.current_speaker = AssignedName(context, SpeakerRole(ag))

\* C26 witness: the moderator assigned the speakers and handed off to the
\* second opposition speaker, who is now main's current agent.
AssignedSpeakerIsCurrent ==
  /\ app = "debate"
  /\ pc = "input"
  /\ current_agent = OO2Speaker
  /\ context.current_speaker = "s4"
  /\ context.current_speaker_role = "opening_opp_2"

\* The agents that can be reached from the agents of S along edges of h.
RECURSIVE ReachableFrom(_, _)
ReachableFrom(h, S) ==
  LET T == S \cup {p[2] : p \in {q \in EdgePairs(h) : q[1] \in S}}
  IN IF T = S THEN S ELSE ReachableFrom(h, T)

\* Every agent of example a can be reached from the entry agent along the
\* edges of h, and the entry agent from every agent.
Connected(h, a) ==
  /\ ReachableFrom(h, {EntryAgent(a)}) = Agents(a)
  /\ \A ag \in Agents(a) : EntryAgent(a) \in ReachableFrom(h, {ag})

\* C29: in both rosters, as main finds them, every agent can be reached from
\* the entry agent along the edges and the entry agent can be reached from
\* every agent (no agent is a dead end); the edges main finds are the ones
\* every later turn runs on.
NoDeadEnd ==
  [][ /\ (pc = "assemble" /\ pc' # "assemble") => Connected(handoffs', app)
      /\ (pc # "assemble") => handoffs' = handoffs
    ]_vars

\* C29 witness: main is at the top of its loop with an agent other than the
\* moderator as current agent, the run having got there along an edge.
LoopTopAwayFromEntry ==
  /\ pc \in {"top", "b_top"}
  /\ turns >= 1
  /\ current_agent # EntryAgent(app)
  /\ current_agent \in ReachableFrom(handoffs, {EntryAgent(app)})
  /\ EntryAgent(app) \in ReachableFrom(handoffs, {current_agent})

(* ======================= THE DEBATE, TURN BY TURN ====================== *)
\* The debate driver over more turns than Spec runs, each Runner.run taken
\* as one step: the user message is appended, the decision returns a
\* script of events, the events are applied in order, the result is given
\* back to main.  The scripts are made of the scoring calls and of handoffs
\* to the moderator, the judge and two of the speakers.
MaxDebateTurns == 5
\* Events applied in one debate, over all its turns.
MaxDebateEvents == 4

ScriptActions ==
  {Ev("action", "score_speech", [speaker |-> "s1", score |-> 2, feedback |-> "f"],
      TRUE, FALSE, 0),
   Ev("action", "score_speech", [speaker |-> "", score |-> 1, feedback |-> "f"],
      TRUE, FALSE, 0),
   Ev("action", "rank_speakers", NoParams, TRUE, FALSE, 0)}

ScriptHandoffs ==
  {Ev("handoff", t, NoParams, TRUE, FALSE, 0) :
     t \in {DebateModerator, DebateJudge, OG1Speaker, OO1Speaker}}

\* The event sequences of at most n events a decision may return: actions,
\* then at most one handoff, which ends the turn.
RECURSIVE Scripts(_)
Scripts(n) ==
  IF n <= 0 THEN {<<>>}
  ELSE {<<>>} \cup {<<e>> : e \in ScriptHandoffs}
       \cup {<<a>> \o s : a \in ScriptActions, s \in Scripts(n - 1)}

\* main has set its locals and is at the top of its loop.
DebateInit ==
  /\ app = "debate"
  /\ pc = "top"
  /\ asm = Len(AppendStatements(app)) + 1
  /\ handoffs = AssembledHandoffs(app)
  /\ registered = EdgePairs(AssembledHandoffs(app))
  /\ current_agent = EntryAgent(app)
  /\ input_items = <<>>
  /\ context = InitialContext(app)
  /\ exchange_count = 0
  /\ turns = 0
  /\ site = "none"
  /\ run_agent = EntryAgent(app)
  /\ new_items = <<>>
  /\ remaining = 0
  /\ total_events = 0
  /\ err = NoError
  /\ pre = [items |-> <<>>, context |-> InitialContext(app), agent |-> EntryAgent(app)]
  /\ step = [event |-> NoEvent, agent |-> EntryAgent(app), items |-> <<>>,
             context |-> InitialContext(app), left |-> 0]
  /\ turn_events = <<>>
  /\ conversation_id \in ConversationIds
  /\ group_id = None
  /\ convs = NoConversations
  /\ names = <<>>
  /\ reg_err = NoRegistration

\* input_items.append(...); result = await Runner.run(...); input_items =
\* result.to_input_list(); current_agent = result.last_agent.  A run that
\* raises ends main with what was done in place.
DebateTurn ==
  /\ pc = "input"
  /\ turns < MaxDebateTurns
  /\ \E u \in DebateInputs :
       /\ Lower(u) # "status"
       /\ \E evs \in Scripts(Min(MaxEvents, MaxDebateEvents - total_events)) :
            \E r \in {Replay(current_agent, context, evs)} :
              /\ (evs # <<>>) =>
                   Replay(current_agent, context, SubSeq(evs, 1, Len(evs) - 1)).err = NoError
              /\ pre' = [items |-> input_items, context |-> context, agent |-> current_agent]
              /\ input_items' = IF r.err = NoError
                                  THEN ToInputList(AppendUserInput(input_items, u), r.items)
                                  ELSE AppendUserInput(input_items, u)
              /\ new_items' = r.items
              /\ current_agent' = IF r.err = NoError THEN r.agent ELSE current_agent
              /\ run_agent' = r.agent
              /\ context' = r.ctx
              /\ err' = r.err
              /\ pc' = IF r.err = NoError THEN "top" ELSE "crashed"
              /\ turn_events' = evs
              /\ total_events' = total_events + Len(evs)
  /\ turns' = turns + 1
  /\ site' = "run"
  /\ group_id' = trace(conversation_id).group_id
  /\ UNCHANGED <<aside, conversation_id, roster, exchange_count, remaining, step>>

\* The decision call of the run fails.
DebateTurnFails ==
  /\ pc = "input"
  /\ turns < MaxDebateTurns
  /\ \E u \in DebateInputs :
       /\ Lower(u) # "status"
       /\ pre' = [items |-> input_items, context |-> context, agent |-> current_agent]
       /\ input_items' = AppendUserInput(input_items, u)
  /\ new_items' = <<>>
  /\ turn_events' = <<>>
  /\ run_agent' = current_agent
  /\ err' = "DecisionCapabilityFailure"
  /\ pc' = "crashed"
  /\ turns' = turns + 1
  /\ site' = "run"
  /\ group_id' = trace(conversation_id).group_id
  /\ UNCHANGED <<aside, conversation_id, roster, current_agent, context, exchange_count,
                 remaining, total_events, step>>

DebateNext ==
  \/ CheckWinner
  \/ Status
  \/ DebateTurn
  \/ DebateTurnFails

SpecDebate == DebateInit /\ [][DebateNext]_vars

\* rank_speakers was called in the script evs, run from agent and context c,
\* at a moment when speaker_scores held at least one score.
RankedWithScores(agent, c, evs) ==
  \E i \in 1..Len(evs) :
    /\ evs[i].name = "rank_speakers"
    /\ Replay(agent, c, SubSeq(evs, 1, i - 1)).ctx.speaker_scores # <<>>

\* C22: the debate loop ends exactly when a winner exists.  At the top of
\* the loop main breaks as soon as context.winner is set and asks for input
\* while it is unset; main never breaks with winner unset; and winner
\* changes only in a run in which rank_speakers was called with at least
\* one score recorded (rank_speakers with no scores leaves it unset).
EndsExactlyWhenWinnerSet ==
  [][ /\ (pc = "top" /\ context.winner # None) => pc' = "done"
      /\ (pc = "top" /\ context.winner = None) => pc' = "input"
      /\ (pc' = "done") => context'.winner # None
      /\ (context'.winner # context.winner) =>
           RankedWithScores(pre'.agent, pre'.context, turn_events')
    ]_vars

\* The targets of the handoffs recorded in a transcript, in order: the agents
\* that became current, one after the other.
RECURSIVE Becomers(_)
Becomers(items) ==
  IF items = <<>> THEN <<>>
  ELSE IF "type" \in DOMAIN Head(items) /\ Head(items).type = "HandoffOccurred"
    THEN <<Head(items).target>> \o Becomers(Tail(items))
  ELSE Becomers(Tail(items))

\* The agents the edges of ag lead to.
TargetsOf(h, ag) == {h[ag][i].agent : i \in 1..Len(h[ag])}

\* C24: in the debate roster every speaker's edges lead to the judge only
\* and the judge's to the moderator only; so whenever two different speakers
\* have become current in a run, the judge and after it the moderator became
\* current in between; main's current agent is always the last agent a
\* handoff of the transcript led to.
SpeakersRouteThroughJudge ==
  /\ \A s \in DebateSpeakers : TargetsOf(handoffs, s) = {DebateJudge}
  /\ TargetsOf(handoffs, DebateJudge) = {DebateModerator}
  /\ LET b == Becomers(input_items)
     IN /\ (pc \in {"top", "input", "done"}) =>
             current_agent = IF b = <<>> THEN DebateModerator ELSE b[Len(b)]
        /\ \A i, j \in 1..Len(b) :
             (i < j /\ b[i] \in DebateSpeakers /\ b[j] \in DebateSpeakers /\ b[i] # b[j]) =>
               \E k, l \in (i + 1)..(j - 1) :
                 k < l /\ b[k] = DebateJudge /\ b[l] = DebateModerator

\* C24 witness: a second speaker is current after a first one has been.
SecondSpeakerCurrent ==
  /\ pc = "top"
  /\ current_agent = OO1Speaker
  /\ Becomers(input_items) = <<OG1Speaker, DebateJudge, DebateModerator, OO1Speaker>>

\* C31: in the debate driver the 'status' input is a pure query.  The step
\* from the input prompt back to the loop top starts no run and leaves
\* input_items, the context and the current agent as they were; and since
\* the winner is as unset as it was when the prompt was reached, the step
\* the loop top takes next is to ask for input again.
StatusIsPureQuery ==
  [][ /\ (app = "debate" /\ pc = "input" /\ pc' = "top") =>
           /\ turns' = turns
           /\ new_items' = new_items
           /\ input_items' = input_items
           /\ context' = context
           /\ current_agent' = current_agent
           /\ ~Truthy(context'.winner)
      /\ (app = "debate" /\ pc = "top" /\ ~Truthy(context.winner)) => pc' = "input"
      /\ (app = "debate" /\ pc = "input" /\ pc' # "top") => turns' = turns + 1
    ]_vars

\* C31 witness: main is back at the loop top from the prompt it reached
\* after a turn that left a transcript, a changed context and an agent other
\* than the moderator as current agent; no run has started since.
StatusAfterHandoffTurn ==
  /\ app = "debate"
  /\ pc = "top"
  /\ turns = 1
  /\ current_agent = DebateJudge
  /\ input_items # <<>>
  /\ context # InitialContext(app)
  /\ ~Truthy(context.winner)

====
